---- MODULE Spec2Model ----
(***************************************************************************)
(* Verification model of discord_stable_diffusion.                         *)
(*                                                                         *)
(* Part I   : StableDiffusionController (modules/sd_controller.py), the    *)
(*            StableDiffusionWebClient worker threads                      *)
(*            (modules/sd_web_client.py) and LockedList                    *)
(*            (modules/locked_list.py).  Every step that touches shared    *)
(*            memory under a lock is one action, so the scheduler and the  *)
(*            workers interleave as the threads do.                        *)
(*                                                                         *)
(* Part II  : the chat side (modules/cogs/sd_generation_commands.py):      *)
(*            admission of requests in _process_request, the in-flight     *)
(*            bookkeeping of InFlightWorkCtx and the fan-out task          *)
(*            _send_responses.  They run on one asyncio event loop, so      *)
(*            every action runs one coroutine from one await to the next.  *)
(*                                                                         *)
(* Part III : the parameter functions of modules/utils.py: validate_params,  *)
(*            make_message_str and parse_message_str, over the parameter   *)
(*            tables of modules/consts.py.                                 *)
(*                                                                         *)
(* Part IV  : the cap lookups of DiscordConfig (modules/discord_config.py). *)
(*                                                                         *)
(* Part V   : the batch size step of _process_request with max_batch_size  *)
(*            and default_batch_size (modules/utils.py).                   *)
(*                                                                         *)
(* Part VI  : the preferences store (modules/user_preferences.py) and the  *)
(*            file main() saves it to.                                     *)
(*                                                                         *)
(* Part VII : admission (Part II) with a full submission queue.            *)
(*                                                                         *)
(* Part VIII: the work item _process_request builds: its sizes after       *)
(*            autosize and resize_scale, and its mode.                     *)
(*                                                                         *)
(* Part IX  : the worker's loop (Part I) with the two critical sections of *)
(*            _pull_work_item as steps of their own.                       *)
(*                                                                         *)
(* Part X   : the cap _process_request asks of DiscordConfig.              *)
(*                                                                         *)
(* Part XI  : the scheduler (Part I) under a load that does not end.       *)
(*                                                                         *)
(* Part XII : the locks of LockedList and of the worker, and the order     *)
(*            in which the threads take them.                              *)
(*                                                                         *)
(* Part XIII: model switches of a worker against its attachments.          *)
(*                                                                         *)
(* Part XIV : the handles of the requests in flight (Part II).             *)
(*                                                                         *)
(* Part XV  : admissions that overlap at a full submission queue.          *)
(*                                                                         *)
(* Part XVI : checkpoints whose name contains the name of a model.         *)
(*                                                                         *)
(* Part XVII: start-up of the controller with backends that stay down.     *)
(*                                                                         *)
(* Part XVIII: unmanned late queues of different lateness.                 *)
(*                                                                         *)
(* Time is the integer variable clock (seconds).  A work item is the       *)
(* record [id, model, ct, images, err]: ct is creation_time, images tells  *)
(* whether the images list is non-empty, err is error_message.             *)
(***************************************************************************)
EXTENDS Integers, Sequences, FiniteSets, TLC

\* ------------------------------------------------------------------------
\* Program constants
\* ------------------------------------------------------------------------
QUEUE_MAX_SIZE == 10
SOFT_DEADLINE == 30

\* ------------------------------------------------------------------------
\* Bounds of the model
\* ------------------------------------------------------------------------
\* number of work items the chat side submits in one run
MaxItems == 1
\* the clock stops advancing here
MaxClock == 31
\* one step of the clock: longer than SOFT_DEADLINE, so that an item is late
\* as soon as the clock has moved since its creation
TickStep == 31

\* BASE_PARAMS[MODEL]["supported_values"], in list order (= the insertion
\* order of the controller's queues dict)
ModelList == <<"m1", "m2", "m3", "m4">>
Models == {ModelList[i] : i \in 1..Len(ModelList)}
\* a model name for which the controller has no queue
UnknownModel == "mx"
\* the controller's urls / workers list, in order
WorkerList == <<1, 2>>
Workers == {WorkerList[i] : i \in 1..Len(WorkerList)}
\* checkpoints a backend can have loaded when it comes up
Checkpoints == Models \cup {"other"}

\* the users of the chat side
Users == {1, 2}
\* the channels the requests come from: the first two have an entry under
\* "channels" of the configuration, the third is supported by its guild
ChannelList == <<7, 8, 9>>
Channels == {ChannelList[i] : i \in 1..Len(ChannelList)}

NoWorker == 0
NoRequest == 0
NoModel == "none"
\* Python's None travelling where a work item is expected
NoneItem == [id |-> 0, model |-> NoModel, ct |-> 0, images |-> FALSE, err |-> "none"]

VARIABLES
    clock,          \* time.time()
    nsub,           \* number of items created so far (ids are 1..nsub)
    stop,           \* StableDiffusionController.stop
    work_queue,     \* the submission queue (AioQueue)
    result_queue,   \* the result queue (AioQueue)
    qlist,          \* queues[model][0].list
    qworkers,       \* queues[model][1]
    spc,            \* position of the controller thread in run()
    sl,             \* locals of the controller thread
    backend,        \* per worker: "down" or the checkpoint the backend has loaded
    wopt,           \* worker._options["sd_model_checkpoint"], "none" while _options is None
    wq,             \* worker._work_queue (a model name, or NoModel for None)
    wstop,          \* worker.stop
    wpc,            \* position of the worker thread in run()
    witem,          \* the worker's local work_item
    locks,          \* who holds each worker._lock and each LockedList.lock
    tally,          \* history: per worker, the attachments and the model switches so far
    attach_count,   \* calls of _attach_worker_to_queue so far (the counter the test controller keeps)
    qhist,          \* history: per queue, the ids put and the ids got so far, in order
    user_in_flight_gen_count,   \* the cog's dict of that name; a missing key reads 0
    active_channels, \* the cog's active_channels: contexts open per channel
    typers,         \* per channel, the typer tasks that have not returned
    in_flight_commands,         \* the cog's dict of that name: handle -> request
    reqs,           \* the requests received so far, each with its InFlightWorkCtx
    fan,            \* the fan-out task _send_responses: its position and its local work_ctx
    installed,      \* the model names update_config() found in the model directory
    vin,            \* a parameter dict as a caller hands it to validate_params
    cpc,            \* how far the dict has been taken: validated, rendered, parsed
    vout,           \* the outcome of validate_params(vin)
    msg,            \* the outcome of make_message_str on the validated dict
    parsed,         \* the outcome of parse_message_str(msg)
    sd_config,      \* the bot's DiscordConfig: its _config
    capq,           \* the arguments of the last call of in_flight_gen_cap
    cap,            \* what that call returned
    breq,           \* a request as it reaches the batch size step of _process_request
    bout,           \* what became of it: rejected, or the batch size of the item pushed
    preferences,    \* main()'s UserPreferences: its _preferences dict
    pfile,          \* the preferences file on disk
    pst             \* where main() is with the file, and the history of the calls

\* the variables of the chat side (Part II)
admvars == <<user_in_flight_gen_count, active_channels, typers, in_flight_commands, reqs, fan>>

\* the variables of the parameter functions (Part III)
codvars == <<installed, vin, cpc, vout, msg, parsed>>

\* the variables of the configuration lookups (Part IV)
cfgvars == <<sd_config, capq, cap>>

\* the variables of the batch size step (Part V)
batvars == <<breq, bout>>

\* the variables of the preferences store (Part VI)
prefvars == <<preferences, pfile, pst>>

\* the variables of Parts IV and later
auxvars == <<cfgvars, batvars, prefvars>>

\* the variables Part I leaves alone
others == <<admvars, codvars, auxvars, locks, tally>>

\* the variables every step of Part I but the call of
\* _attach_worker_to_queue leaves alone
rest == <<others, attach_count, qhist>>

\* the variables of the controller and its workers that the chat side
\* never touches
pipevars == <<nsub, stop, qlist, qworkers, spc, sl, backend, wopt, wq, wstop, wpc, witem,
              attach_count, qhist, locks, tally>>

vars == <<clock, nsub, stop, work_queue, result_queue, qlist, qworkers, spc, sl,
          backend, wopt, wq, wstop, wpc, witem, attach_count, qhist, locks, tally,
          admvars, codvars, auxvars>>

\* ------------------------------------------------------------------------
\* Sequence helpers (Python list operations)
\* ------------------------------------------------------------------------
Range(s) == {s[i] : i \in 1..Len(s)}

\* min(a, b)
Min2(a, b) == IF a <= b THEN a ELSE b

\* x in s
Contains(s, x) == \E i \in 1..Len(s) : s[i] = x

\* s.remove(x): drops the first occurrence (callers guarantee x in s)
RECURSIVE ListRemove(_, _)
ListRemove(s, x) ==
    IF s = <<>> THEN <<>>
    ELSE IF Head(s) = x THEN Tail(s)
    ELSE <<Head(s)>> \o ListRemove(Tail(s), x)

\* number of occurrences of x in s
RECURSIVE Count(_, _)
Count(s, x) ==
    IF s = <<>> THEN 0
    ELSE (IF Head(s) = x THEN 1 ELSE 0) + Count(Tail(s), x)

\* list.sort(key=...) is stable and ascending.  The lists sorted here are
\* lists of tuples whose first component is the sort key: insert x behind
\* every element whose key is not larger
RECURSIVE InsertByKey(_, _)
InsertByKey(s, x) ==
    IF s = <<>> THEN <<x>>
    ELSE IF Head(s)[1] <= x[1] THEN <<Head(s)>> \o InsertByKey(Tail(s), x)
    ELSE <<x>> \o s

RECURSIVE SortByKey(_)
SortByKey(s) ==
    IF s = <<>> THEN <<>>
    ELSE InsertByKey(SortByKey(SubSeq(s, 1, Len(s) - 1)), s[Len(s)])

\* ------------------------------------------------------------------------
\* Initial state: the controller is constructed (_initialize_queues has run),
\* run() has not started yet
\* ------------------------------------------------------------------------
\* the scan of the queues has not ended
NoScan == [done |-> FALSE, late |-> <<>>, workable |-> <<>>, free |-> <<>>]

\* no thread holds a lock; a lock is held by a worker thread or by the
\* controller thread
Controller == Len(WorkerList) + 1
Unlocked == [w |-> [x \in Workers |-> NoWorker], q |-> [m \in Models |-> NoWorker]]

\* the tally of a run in which none is kept, and the tally after one more
\* event ("attached" or "switched") of worker w
NoTally == <<>>
Tallied(t, w, event) == IF t = NoTally THEN t ELSE [t EXCEPT ![w][event] = @ + 1]

\* locals of the controller thread, at rest
SL0 ==
    [ idx |-> 0,            \* loop index
      total |-> 0,          \* _pending_work_count: total
      item |-> NoneItem,    \* run: work_item
      size |-> 0,           \* _schedule_queues: wqsize
      now |-> 0,            \* _schedule_queues: now
      avail |-> <<>>,       \* _schedule_queues: available_workers
      late |-> <<>>,        \* _schedule_queues: late_queues, tuples <<latency, model>>
      workable |-> <<>>,    \* _schedule_queues: workable_queues, <<latency, wqsize, model>>
      free |-> <<>>,        \* _schedule_queues: free_workers
      keys |-> <<>>,        \* sort keys of available_workers, in list order
      w |-> NoWorker,       \* _attach_worker_to_queue: worker
      m |-> NoModel,        \* _attach_worker_to_queue: model
      ret |-> "none",       \* caller of _attach_worker_to_queue
      \* history of the current scheduling pass (not program state)
      inpass |-> FALSE,     \* a pass has begun and not yet returned
      bound0 |-> <<>>,      \* worker._work_queue of every worker when the pass began
      late0 |-> {},         \* queues whose head was late when the pass began
      pinned |-> {},        \* workers the pass removed from available_workers as late-manned
      moved |-> <<>>,       \* workers rebound by the pass, in order
      how |-> <<>>,         \* for each entry of moved: "free" (first loop) or "late" (pool)
      dest |-> <<>>,        \* for each entry of moved: the queue the worker was bound to
      scan |-> NoScan,      \* the three lists as the scan of the queues left them
      pool |-> <<>> ]       \* available_workers before its sort, tuples <<sort key, worker>>

\* ids of the entries of a list of work items, in order
Ids(list) == [i \in 1..Len(list) |-> list[i].id]

\* the chat side right after the cog was constructed
AdmissionIdle ==
    /\ user_in_flight_gen_count = [u \in Users |-> 0]
    /\ active_channels = [ch \in Channels |-> 0]
    /\ typers = [ch \in Channels |-> 0]
    /\ in_flight_commands = <<>>
    /\ reqs = <<>>
    /\ fan = [pc |-> "run", work_ctx |-> NoRequest]

\* the parameter functions at rest: nothing was handed to them
CodecIdle ==
    /\ installed = {}
    /\ vin = <<>>
    /\ cpc = "idle"
    /\ vout = <<>>
    /\ msg = <<>>
    /\ parsed = <<>>

\* no configuration loaded, no lookup made
ConfigIdle ==
    /\ sd_config = <<>>
    /\ capq = <<>>
    /\ cap = <<>>

\* no request has reached the batch size step
BatchIdle ==
    /\ breq = <<>>
    /\ bout = <<>>

\* no file on disk
NoFile == [exists |-> FALSE, complete |-> FALSE, entries |-> <<>>]

\* the preferences store before main() has loaded it
PrefsIdle ==
    /\ preferences = <<>>
    /\ pfile = NoFile
    /\ pst = [pc |-> "unloaded", nsets |-> 0, nsaves |-> 0, last |-> <<>>, snap |-> <<>>,
              prev |-> NoFile, loaded |-> <<>>]

\* Parts IV and later at rest
AuxIdle == ConfigIdle /\ BatchIdle /\ PrefsIdle

\* the controller right after its construction, no thread started
ControlIdle ==
    /\ clock = 0
    /\ nsub = 0
    /\ stop = FALSE
    /\ work_queue = <<>>
    /\ result_queue = <<>>
    /\ qlist = [m \in Models |-> <<>>]
    /\ qworkers = [m \in Models |-> <<>>]
    /\ spc = "start"
    /\ sl = SL0
    /\ attach_count = 0
    /\ locks = Unlocked
    /\ tally = NoTally
    /\ qhist = [m \in Models |-> [put |-> <<>>, got |-> <<>>]]
    /\ backend = [w \in Workers |-> "down"]
    /\ wopt = [w \in Workers |-> "none"]
    /\ wq = [w \in Workers |-> NoModel]
    /\ wstop = [w \in Workers |-> FALSE]
    /\ wpc = [w \in Workers |-> "unstarted"]
    /\ witem = [w \in Workers |-> NoneItem]

\* ------------------------------------------------------------------------
\* Environment
\* ------------------------------------------------------------------------
\* the chat side creates a work item (creation_time = time.time()) and puts it
\* on the submission queue
NewItem(m) == [id |-> nsub + 1, model |-> m, ct |-> clock, images |-> FALSE, err |-> "unknown"]

Submit(m, limit) ==
    /\ nsub < limit
    /\ nsub' = nsub + 1
    /\ work_queue' = Append(work_queue, NewItem(m))
    /\ UNCHANGED <<rest, clock, stop, result_queue, qlist, qworkers, spc, sl,
                   backend, wopt, wq, wstop, wpc, witem>>

Tick ==
    /\ clock + TickStep <= MaxClock
    /\ clock' = clock + TickStep
    /\ UNCHANGED <<rest, nsub, stop, work_queue, result_queue, qlist, qworkers, spc, sl,
                   backend, wopt, wq, wstop, wpc, witem>>

\* the webui process of worker w starts answering, with checkpoint c loaded
BackendUp(w, c) ==
    /\ backend[w] = "down"
    /\ backend' = [backend EXCEPT ![w] = c]
    /\ UNCHANGED <<rest, clock, nsub, stop, work_queue, result_queue, qlist, qworkers, spc, sl,
                   wopt, wq, wstop, wpc, witem>>

\* main() sets sd_controller.stop
Stop ==
    /\ ~stop
    /\ stop' = TRUE
    /\ UNCHANGED <<rest, clock, nsub, work_queue, result_queue, qlist, qworkers, spc, sl,
                   backend, wopt, wq, wstop, wpc, witem>>

\* ------------------------------------------------------------------------
\* StableDiffusionWebClient (worker thread)
\* ------------------------------------------------------------------------
\* the answer of a webui that does not yet name its checkpoint: options
\* without the key sd_model_checkpoint
NoKey == "nokey"

\* get_model(): "sd_model_checkpoint" in self._options, for options that
\* are not None
HasCheckpoint_Any(o) == o # "none"
HasCheckpoint(o) == o \notin {"none", NoKey}

\* get_model() on options without the key: self.get_options(True)
Refreshed(w, o) == IF backend[w] = "down" THEN o ELSE backend[w]

\* the webui process of worker w has loaded checkpoint c and names it
BackendReady(w, c) ==
    /\ backend[w] = NoKey
    /\ backend' = [backend EXCEPT ![w] = c]
    /\ UNCHANGED <<rest, clock, nsub, stop, work_queue, result_queue, qlist, qworkers, spc, sl,
                   wopt, wq, wstop, wpc, witem>>

\* get_options(): the value of _options afterwards ("none": still None)
GetOptions(w) == IF wopt[w] = "none" /\ backend[w] # "down" THEN backend[w] ELSE wopt[w]

\* A name is a text, one piece for a word (see Part III).  LongName is a
\* checkpoint whose name begins with the name of the first model, as
\* "anythingV5" begins with "anything".
LongName == "m1x"
Spelled(name) == IF name = LongName THEN <<ModelList[1], "x">> ELSE <<name>>

\* Python's "a in b" for two texts
IsInfix(a, b) == \E i \in 0..(Len(b) - Len(a)) : SubSeq(b, i + 1, i + Len(a)) = a

\* work_item.model in self._options["sd_model_checkpoint"] (substring test)
ModelInCheckpoint_Never(model, ckpt) == FALSE
ModelInCheckpoint(model, ckpt) == IsInfix(Spelled(model), Spelled(ckpt))

\* run(): the value of the condition of "while not self.stop" decides where
\* the thread goes next.  The condition is evaluated in the step that ends the
\* statement before it: the flag is only ever set, and _pull_work_item reads
\* it again before anything else, so a later evaluation has no outcome this
\* one lacks.
RunTop(w) == IF wstop[w] THEN "done" ELSE "pull"

\* run(): while self.get_options() is None and not self.stop
WorkerWaitApi(w) ==
    /\ wpc[w] = "wait_api"
    /\ GetOptions(w) # "none" \/ wstop[w]
    /\ wopt' = [wopt EXCEPT ![w] = GetOptions(w)]
    /\ wpc' = [wpc EXCEPT ![w] = RunTop(w)]
    /\ UNCHANGED <<rest, clock, nsub, stop, work_queue, result_queue, qlist, qworkers, spc, sl,
                   backend, wq, wstop, witem>>

\* the history of a queue after one more id; no history is kept where it
\* was given up at the start
NoHistory == <<0>>
Noted(h, id) == IF h = NoHistory THEN h ELSE Append(h, id)

\* LockedList.put(item): the list after the call
ListAfterPut(list, item) == Append(list, item)

\* LockedList.get(): the list after the call
ListAfterGet_Last(list) == IF list # <<>> THEN SubSeq(list, 1, Len(list) - 1) ELSE list
ListAfterGet(list) == IF list # <<>> THEN Tail(list) ELSE list

\* LockedList.get(): the value returned
GetResult(list) == IF list # <<>> THEN Head(list) ELSE NoneItem

\* _pull_work_item(): one round of its loop that does not end in a sleep.
\* With the stop flag set the function falls off its end and returns None;
\* otherwise, under the worker's lock, it takes the head of the queue the
\* worker is attached to.  (A round that finds no queue or an empty queue
\* sleeps and changes nothing.)
WorkerPull(w) ==
    /\ wpc[w] = "pull"
    /\ IF wstop[w]
       THEN /\ witem' = [witem EXCEPT ![w] = NoneItem]
            /\ UNCHANGED <<qlist, qhist>>
       ELSE /\ wq[w] # NoModel
            /\ GetResult(qlist[wq[w]]) # NoneItem
            /\ witem' = [witem EXCEPT ![w] = GetResult(qlist[wq[w]])]
            /\ qlist' = [qlist EXCEPT ![wq[w]] = ListAfterGet(qlist[wq[w]])]
            /\ qhist' = [qhist EXCEPT ![wq[w]].got = Noted(@, GetResult(qlist[wq[w]]).id)]
    /\ wpc' = [wpc EXCEPT ![w] = "process"]
    /\ UNCHANGED <<others, attach_count, clock, nsub, stop, work_queue, result_queue, qworkers, spc, sl,
                   backend, wopt, wq, wstop>>

\* _process_work_item(work_item): the work item afterwards.  outcome is what
\* the backend does:
\*   "ok"          every request answers as it should
\*   "switch_fail" the POST to sdapi/v1/options answers with a status # 200
\*   "gen_fail"    the generation request fails or its answer does not decode
\* For None the attribute access raises inside the try block and the except
\* clause swallows it.
Processed_Gen(it, outcome) ==
    IF it = NoneItem THEN it
    ELSE IF outcome = "switch_fail" THEN [it EXCEPT !.err = "switch", !.images = TRUE]
    ELSE IF outcome = "ok" THEN [it EXCEPT !.images = TRUE]
    ELSE it

Processed(it, outcome) ==
    IF it = NoneItem THEN it
    ELSE IF outcome = "switch_fail" THEN [it EXCEPT !.err = "switch"]
    ELSE IF outcome = "ok" THEN [it EXCEPT !.images = TRUE]
    ELSE it

\* run(): self._process_work_item(work_item); self._result_queue.put(work_item)
WorkerProcess(w, outcome) ==
    /\ wpc[w] = "process"
    /\ LET it == witem[w]
           switch == it # NoneItem /\ ~ModelInCheckpoint(it.model, wopt[w])
       IN  /\ outcome = "switch_fail" => switch
           /\ it = NoneItem => outcome = "ok"
           /\ IF switch /\ outcome # "switch_fail"
              THEN /\ wopt' = [wopt EXCEPT ![w] = it.model]
                   /\ backend' = [backend EXCEPT ![w] = it.model]
                   /\ tally' = Tallied(tally, w, "switched")
              ELSE UNCHANGED <<wopt, backend, tally>>
           /\ result_queue' = Append(result_queue, Processed(it, outcome))
    /\ witem' = [witem EXCEPT ![w] = NoneItem]
    /\ wpc' = [wpc EXCEPT ![w] = RunTop(w)]
    /\ UNCHANGED <<admvars, codvars, auxvars, locks, attach_count, qhist, clock, nsub, stop,
                   work_queue, qlist, qworkers, spc, sl, wq, wstop>>

\* ------------------------------------------------------------------------
\* StableDiffusionController (controller thread)
\* ------------------------------------------------------------------------
NumModels == Len(ModelList)
NumWorkers == Len(WorkerList)

\* get_model(): the friendly name of a checkpoint, the first supported model
\* contained in it, else the raw checkpoint string
RECURSIVE FirstMatch(_, _)
FirstMatch(models, ckpt) ==
    IF models = <<>> THEN ckpt
    ELSE IF ModelInCheckpoint(Head(models), ckpt) THEN Head(models)
    ELSE FirstMatch(Tail(models), ckpt)

FriendlyName(ckpt) == FirstMatch(ModelList, ckpt)

\* run(): worker_model, replaced by models[0] when it is not a supported model
InitialQueue(ckpt) ==
    IF FriendlyName(ckpt) \in Models THEN FriendlyName(ckpt) ELSE ModelList[1]

\* oldest_work_item(work_queue, now)
OldestWorkItem(list, now) == IF list # <<>> THEN Head(list).ct ELSE now

\* _attach_worker_to_queue, first loop: the worker lists after the worker
\* was removed from every list that holds it
RemoveFromLists_Skip(lists, w) == lists

RemoveFromLists(lists, w) ==
    [m \in Models |-> IF Contains(lists[m], w) THEN ListRemove(lists[m], w) ELSE lists[m]]

\* _schedule_queues: available_workers after the workers of a late queue
\* were removed from it
PinWorkers_Skip(avail, workers) == avail

RECURSIVE PinWorkers(_, _)
PinWorkers(avail, workers) ==
    IF workers = <<>> THEN avail
    ELSE PinWorkers(ListRemove(avail, Head(workers)), Tail(workers))

\* _schedule_queues: available_workers after a free worker was moved
AvailAfterMove_Skip(avail, w) == avail

AvailAfterMove(avail, w) == ListRemove(avail, w)

\* run(): the guard of the drain loop
BelowCapacity_Off(total) == total <= QUEUE_MAX_SIZE

BelowCapacity(total) == total < QUEUE_MAX_SIZE

\* workable_queues.sort(key=lambda x: x[0] * 5 + x[1])
WorkableKey_Latency(x) == x[1]
WorkableKey(x) == x[1] * 5 + x[2]

\* late_queues.sort(key=lambda x: x[0])
SortLate_Not(late) == late
SortLate(late) == SortByKey(late)

SortWorkable(workable) ==
    LET keyed == [i \in 1..Len(workable) |-> <<WorkableKey(workable[i]), workable[i]>>]
        sorted == SortByKey(keyed)
    IN  [i \in 1..Len(sorted) |-> sorted[i][2]]

\* available_workers.sort(key=lambda w: oldest_work_item(w.get_queue(), now))
SortAvailable(avail, keys) ==
    LET keyed == [i \in 1..Len(avail) |-> <<keys[i], avail[i]>>]
        sorted == SortByKey(keyed)
    IN  [i \in 1..Len(sorted) |-> sorted[i][2]]

Last(s) == s[Len(s)]
Front(s) == SubSeq(s, 1, Len(s) - 1)

\* run(): for url in self.urls: self._start_worker(url)
SchedStart ==
    /\ spc = "start"
    /\ wpc' = [w \in Workers |-> "wait_api"]
    /\ spc' = "init"
    /\ sl' = [SL0 EXCEPT !.idx = 1]
    /\ UNCHANGED <<rest, clock, nsub, stop, work_queue, result_queue, qlist, qworkers,
                   backend, wopt, wq, wstop, witem>>

\* run(): for worker in self.workers: wait until get_model() is not None,
\* then attach the worker to the queue of its model
SchedInit ==
    /\ spc = "init"
    /\ IF sl.idx > NumWorkers
       THEN /\ spc' = "loop"
            /\ sl' = SL0
            /\ UNCHANGED wopt
       ELSE LET w == WorkerList[sl.idx] IN
            /\ GetOptions(w) # "none"
            /\ IF HasCheckpoint(GetOptions(w))
               THEN /\ wopt' = [wopt EXCEPT ![w] = GetOptions(w)]
                    /\ spc' = "att_remove"
                    /\ sl' = [sl EXCEPT !.w = w, !.m = InitialQueue(GetOptions(w)),
                                        !.ret = "init"]
               ELSE \* get_model() refreshes the options and returns None
                    /\ wopt' = [wopt EXCEPT ![w] = Refreshed(w, GetOptions(w))]
                    /\ UNCHANGED <<spc, sl>>
    /\ UNCHANGED <<rest, clock, nsub, stop, work_queue, result_queue, qlist, qworkers,
                   backend, wq, wstop, wpc, witem>>

\* the test controller's _attach_worker_to_queue: self.attach_count += 1
Counted_Not(n) == n
Counted(n) == n + 1

\* _attach_worker_to_queue: the call is counted, and the worker is removed
\* from the worker lists
AttachRemove ==
    /\ spc = "att_remove"
    /\ attach_count' = Counted(attach_count)
    /\ tally' = Tallied(tally, sl.w, "attached")
    /\ qworkers' = RemoveFromLists(qworkers, sl.w)
    /\ spc' = "att_worker"
    /\ UNCHANGED <<admvars, codvars, auxvars, locks, qhist, clock, nsub, stop, work_queue, result_queue, qlist, sl,
                   backend, wopt, wq, wstop, wpc, witem>>

\* _attach_worker_to_queue: worker.attach_to_queue(work_queue), under the
\* worker's lock
AttachWorker ==
    /\ spc = "att_worker"
    /\ wq' = [wq EXCEPT ![sl.w] = sl.m]
    /\ spc' = "att_append"
    /\ sl' = IF sl.inpass
             THEN [sl EXCEPT !.moved = Append(sl.moved, sl.w), !.how = Append(sl.how, sl.ret),
                             !.dest = Append(sl.dest, sl.m)]
             ELSE sl
    /\ UNCHANGED <<rest, clock, nsub, stop, work_queue, result_queue, qlist, qworkers,
                   backend, wopt, wstop, wpc, witem>>

\* _attach_worker_to_queue: worker_list.append(worker), and the return to
\* the caller
AttachAppend ==
    /\ spc = "att_append"
    /\ qworkers' = [qworkers EXCEPT ![sl.m] = Append(qworkers[sl.m], sl.w)]
    /\ spc' = CASE sl.ret = "init" -> "init"
                [] sl.ret = "free" -> "free_loop"
                [] OTHER -> "late_loop"
    /\ sl' = [sl EXCEPT !.w = NoWorker, !.m = NoModel, !.ret = "none",
                        !.idx = sl.idx + 1,
                        !.avail = IF sl.ret = "free" THEN AvailAfterMove(sl.avail, sl.w)
                                  ELSE sl.avail]
    /\ UNCHANGED <<rest, clock, nsub, stop, work_queue, result_queue, qlist,
                   backend, wopt, wq, wstop, wpc, witem>>

\* run(): while not self.stop
SchedLoop ==
    /\ spc = "loop"
    /\ spc' = IF stop THEN "stopping" ELSE "count"
    /\ sl' = [SL0 EXCEPT !.idx = 1]
    /\ UNCHANGED <<rest, clock, nsub, stop, work_queue, result_queue, qlist, qworkers,
                   backend, wopt, wq, wstop, wpc, witem>>

\* _schedule_queues, lines 117-124: the locals when the pass begins
BeginPass ==
    [SL0 EXCEPT !.idx = 1, !.now = clock, !.avail = WorkerList,
                !.inpass = TRUE, !.bound0 = wq,
                !.late0 = {m \in Models : clock - OldestWorkItem(qlist[m], clock) > SOFT_DEADLINE}]

\* _pending_work_count(): one q.size() per step; after the last one the
\* guard of the drain loop is evaluated
SchedCount ==
    /\ spc = "count"
    /\ LET total == sl.total + Len(qlist[ModelList[sl.idx]]) IN
       IF sl.idx < NumModels
       THEN /\ spc' = "count"
            /\ sl' = [sl EXCEPT !.idx = sl.idx + 1, !.total = total]
       ELSE IF BelowCapacity(total)
       THEN /\ spc' = "pull"
            /\ sl' = SL0
       ELSE /\ spc' = "scan_size"
            /\ sl' = BeginPass
    /\ UNCHANGED <<rest, clock, nsub, stop, work_queue, result_queue, qlist, qworkers,
                   backend, wopt, wq, wstop, wpc, witem>>

\* _pull_work_item(): work_queue.get(timeout=.5); None ends the drain loop
SchedPull ==
    /\ spc = "pull"
    /\ IF work_queue = <<>>
       THEN /\ spc' = "scan_size"
            /\ sl' = BeginPass
            /\ UNCHANGED work_queue
       ELSE /\ spc' = "put"
            /\ sl' = [SL0 EXCEPT !.item = Head(work_queue)]
            /\ work_queue' = Tail(work_queue)
    /\ UNCHANGED <<rest, clock, nsub, stop, result_queue, qlist, qworkers,
                   backend, wopt, wq, wstop, wpc, witem>>

\* run(): self.queues[work_item.model][0].put(work_item); a model without a
\* queue raises KeyError, which ends the controller thread
SchedPut ==
    /\ spc = "put"
    /\ IF sl.item.model \in Models
       THEN /\ qlist' = [qlist EXCEPT ![sl.item.model] = ListAfterPut(qlist[sl.item.model], sl.item)]
            /\ qhist' = [qhist EXCEPT ![sl.item.model].put = Noted(@, sl.item.id)]
            /\ spc' = "count"
            /\ sl' = [SL0 EXCEPT !.idx = 1]
       ELSE /\ spc' = "crashed"
            /\ sl' = SL0
            /\ UNCHANGED <<qlist, qhist>>
    /\ UNCHANGED <<others, attach_count, clock, nsub, stop, work_queue, result_queue, qworkers,
                   backend, wopt, wq, wstop, wpc, witem>>

\* _schedule_queues: wqsize = work_queue.size()
SchedScanSize ==
    /\ spc = "scan_size"
    /\ sl' = [sl EXCEPT !.size = Len(qlist[ModelList[sl.idx]])]
    /\ spc' = "scan_head"
    /\ UNCHANGED <<rest, clock, nsub, stop, work_queue, result_queue, qlist, qworkers,
                   backend, wopt, wq, wstop, wpc, witem>>

\* _schedule_queues: latency = now - oldest_work_item(work_queue, now) and the
\* classification of the queue; after the last queue the two sorts
SchedScanHead ==
    /\ spc = "scan_head"
    /\ LET m == ModelList[sl.idx]
           latency == sl.now - OldestWorkItem(qlist[m], sl.now)
           workers == qworkers[m]
           isLate == latency > SOFT_DEADLINE
           late1 == IF isLate /\ Len(workers) = 0
                    THEN Append(sl.late, <<latency, m>>) ELSE sl.late
           avail1 == IF isLate /\ Len(workers) # 0
                     THEN PinWorkers(sl.avail, workers) ELSE sl.avail
           pinned1 == IF isLate /\ Len(workers) # 0
                      THEN sl.pinned \cup Range(workers) ELSE sl.pinned
           workable1 == IF ~isLate /\ sl.size > 0
                        THEN Append(sl.workable, <<latency, sl.size, m>>) ELSE sl.workable
           free1 == IF ~isLate /\ sl.size = 0 /\ Len(workers) > 0
                    THEN sl.free \o workers ELSE sl.free
       IN  IF sl.idx < NumModels
           THEN /\ spc' = "scan_size"
                /\ sl' = [sl EXCEPT !.idx = sl.idx + 1, !.size = 0, !.late = late1,
                                    !.avail = avail1, !.pinned = pinned1,
                                    !.workable = workable1, !.free = free1]
           ELSE /\ spc' = "free_loop"
                /\ sl' = [sl EXCEPT !.idx = 1, !.size = 0, !.late = SortLate(late1),
                                    !.avail = avail1, !.pinned = pinned1,
                                    !.workable = SortWorkable(workable1), !.free = free1,
                                    !.scan = [done |-> TRUE, late |-> late1,
                                              workable |-> workable1, free |-> free1]]
    /\ UNCHANGED <<rest, clock, nsub, stop, work_queue, result_queue, qlist, qworkers,
                   backend, wopt, wq, wstop, wpc, witem>>

\* _schedule_queues: for worker in free_workers
SchedFreeLoop ==
    /\ spc = "free_loop"
    /\ IF sl.idx > Len(sl.free)
       THEN /\ spc' = "keys"
            /\ sl' = [sl EXCEPT !.idx = 1]
       ELSE IF sl.late # <<>>
       THEN /\ spc' = "att_remove"
            /\ sl' = [sl EXCEPT !.w = sl.free[sl.idx], !.m = Last(sl.late)[2],
                                !.ret = "free", !.late = Front(sl.late)]
       ELSE IF sl.workable # <<>>
       THEN /\ spc' = "att_remove"
            /\ sl' = [sl EXCEPT !.w = sl.free[sl.idx], !.m = Last(sl.workable)[3],
                                !.ret = "free", !.workable = Front(sl.workable)]
       ELSE /\ spc' = "free_loop"
            /\ sl' = [sl EXCEPT !.idx = sl.idx + 1]
    /\ UNCHANGED <<rest, clock, nsub, stop, work_queue, result_queue, qlist, qworkers,
                   backend, wopt, wq, wstop, wpc, witem>>

\* _schedule_queues: available_workers.sort(...): one key per step (each key
\* reads a queue head under the queue's lock), then the sort
SchedKeys ==
    /\ spc = "keys"
    /\ IF sl.idx > Len(sl.avail)
       THEN /\ spc' = "late_loop"
            /\ sl' = [sl EXCEPT !.idx = 1, !.keys = <<>>,
                                !.avail = SortAvailable(sl.avail, sl.keys),
                                !.pool = [i \in 1..Len(sl.avail) |-> <<sl.keys[i], sl.avail[i]>>]]
       ELSE /\ spc' = "keys"
            /\ sl' = [sl EXCEPT !.idx = sl.idx + 1,
                                !.keys = Append(sl.keys,
                                     OldestWorkItem(qlist[wq[sl.avail[sl.idx]]], sl.now))]
    /\ UNCHANGED <<rest, clock, nsub, stop, work_queue, result_queue, qlist, qworkers,
                   backend, wopt, wq, wstop, wpc, witem>>

\* _schedule_queues: for _, model in late_queues; the return of the pass
\* keeps its history until the next iteration of run() starts
SchedLateLoop ==
    /\ spc = "late_loop"
    /\ IF sl.idx > Len(sl.late)
       THEN /\ spc' = "loop"
            /\ sl' = [SL0 EXCEPT !.bound0 = sl.bound0, !.late0 = sl.late0,
                                 !.pinned = sl.pinned, !.moved = sl.moved, !.how = sl.how,
                                 !.dest = sl.dest, !.scan = sl.scan]
       ELSE IF sl.avail # <<>>
       THEN /\ spc' = "att_remove"
            /\ sl' = [sl EXCEPT !.w = Head(sl.avail), !.m = sl.late[sl.idx][2],
                                !.ret = "late", !.avail = Tail(sl.avail)]
       ELSE /\ spc' = "late_loop"
            /\ sl' = [sl EXCEPT !.idx = sl.idx + 1]
    /\ UNCHANGED <<rest, clock, nsub, stop, work_queue, result_queue, qlist, qworkers,
                   backend, wopt, wq, wstop, wpc, witem>>

\* run(): for worker in self.workers: worker.stop = True
SchedStopWorkers ==
    /\ spc = "stopping"
    /\ wstop' = [wstop EXCEPT ![WorkerList[sl.idx]] = TRUE]
    /\ IF sl.idx < NumWorkers
       THEN /\ spc' = "stopping"
            /\ sl' = [sl EXCEPT !.idx = sl.idx + 1]
       ELSE /\ spc' = "join"
            /\ sl' = [sl EXCEPT !.idx = 1]
    /\ UNCHANGED <<rest, clock, nsub, stop, work_queue, result_queue, qlist, qworkers,
                   backend, wopt, wq, wpc, witem>>

\* run(): for worker in self.workers: worker.join()
SchedJoin ==
    /\ spc = "join"
    /\ wpc[WorkerList[sl.idx]] = "done"
    /\ IF sl.idx < NumWorkers
       THEN /\ spc' = "join"
            /\ sl' = [sl EXCEPT !.idx = sl.idx + 1]
       ELSE /\ spc' = "done"
            /\ sl' = SL0
    /\ UNCHANGED <<rest, clock, nsub, stop, work_queue, result_queue, qlist, qworkers,
                   backend, wopt, wq, wstop, wpc, witem>>

\* ------------------------------------------------------------------------
\* Specification of the controller with its workers, from construction
\* ------------------------------------------------------------------------
Init == ControlIdle /\ AdmissionIdle /\ CodecIdle /\ AuxIdle

SchedStep ==
    \/ SchedStart
    \/ SchedInit
    \/ AttachRemove
    \/ AttachWorker
    \/ AttachAppend
    \/ SchedLoop
    \/ SchedCount
    \/ SchedPull
    \/ SchedPut
    \/ SchedScanSize
    \/ SchedScanHead
    \/ SchedFreeLoop
    \/ SchedKeys
    \/ SchedLateLoop

SchedShutdown ==
    \/ SchedStopWorkers
    \/ SchedJoin

WorkerStep(w, Outcomes) ==
    \/ WorkerWaitApi(w)
    \/ WorkerPull(w)
    \/ \E outcome \in Outcomes : WorkerProcess(w, outcome)

\* models of the items submitted, checkpoints the backends start with and
\* backend behaviours in this specification
SubmitModels == {"m1", "m2", UnknownModel}
StartCheckpoints == {"m2", "other"}
AllOutcomes == {"ok", "switch_fail", "gen_fail"}

Next ==
    \/ \E m \in SubmitModels : Submit(m, MaxItems)
    \/ Tick
    \/ \E w \in Workers, c \in StartCheckpoints : BackendUp(w, c)
    \/ Stop
    \/ SchedStep
    \/ SchedShutdown
    \/ \E w \in Workers : WorkerStep(w, AllOutcomes)

Spec == Init /\ [][Next]_vars

\* ------------------------------------------------------------------------
\* Specification of the controller in the states a slow start leaves
\* behind.  While run() waits for the backends to answer, the chat side
\* keeps creating items; once the workers are attached, the first drain
\* loop moves the whole backlog into the per-model queues before the first
\* scheduling pass.  The initial states are the states at the head of the
\* drain loop when the submission queue has just been emptied: every worker
\* is attached to the queue of its checkpoint and idle, every queue holds the
\* items of its model.
\* ------------------------------------------------------------------------
BacklogClock == 2 * TickStep
\* creation times of backlog items: two ages that are late, one that is not
BacklogTimes == {0, TickStep, 2 * TickStep}

ModelIndex(m) == CHOOSE i \in 1..NumModels : ModelList[i] = m

BacklogItem(m, ct) == [id |-> ModelIndex(m), model |-> m, ct |-> ct, images |-> FALSE, err |-> "unknown"]

\* ages of the backlog per queue (-1: the queue is empty) and the queues the
\* workers' checkpoints bind them to
BacklogAges ==
    { c \in [Models -> BacklogTimes \cup {-1}] :
        /\ c["m1"] = -1
        /\ c["m3"] # 2 * TickStep
        /\ c["m4"] # 2 * TickStep }

BacklogBindings == { a \in [Workers -> {"m1", "m2"}] : a[1] = "m1" }

InitBacklog ==
    /\ CodecIdle
    /\ AdmissionIdle
    /\ AuxIdle
    /\ clock = BacklogClock
    /\ nsub = NumModels
    /\ stop = FALSE
    /\ work_queue = <<>>
    /\ result_queue = <<>>
    /\ \E c \in BacklogAges :
           qlist = [m \in Models |-> IF c[m] = -1 THEN <<>> ELSE <<BacklogItem(m, c[m])>>]
    /\ \E a \in BacklogBindings :
           /\ wq = a
           /\ wopt = a
           /\ backend = a
           /\ qworkers = [m \in Models |-> SelectSeq(WorkerList, LAMBDA w : a[w] = m)]
    /\ spc = "count"
    /\ sl = [SL0 EXCEPT !.idx = 1]
    /\ attach_count = NumWorkers
    /\ locks = Unlocked
    /\ tally = NoTally
    /\ qhist = [m \in Models |-> [put |-> Ids(qlist[m]), got |-> <<>>]]
    /\ wstop = [w \in Workers |-> FALSE]
    /\ wpc = [w \in Workers |-> "pull"]
    /\ witem = [w \in Workers |-> NoneItem]

SchedRunning ==
    \/ AttachRemove
    \/ AttachWorker
    \/ AttachAppend
    \/ SchedLoop
    \/ SchedCount
    \/ SchedPull
    \/ SchedScanSize
    \/ SchedScanHead
    \/ SchedFreeLoop
    \/ SchedKeys
    \/ SchedLateLoop

WorkerRunning(w, Outcomes) ==
    \/ WorkerPull(w)
    \/ \E outcome \in Outcomes : WorkerProcess(w, outcome)

BacklogOutcomes == {"ok", "switch_fail"}

NextBacklog ==
    \/ SchedRunning
    \/ \E w \in Workers : WorkerRunning(w, BacklogOutcomes)

SpecBacklog == InitBacklog /\ [][NextBacklog]_vars

\* ------------------------------------------------------------------------
\* Properties of the controller
\* ------------------------------------------------------------------------
\* number of worker lists entries that are worker w
RECURSIVE Memberships(_, _)
Memberships(i, w) ==
    IF i = 0 THEN 0 ELSE Count(qworkers[ModelList[i]], w) + Memberships(i - 1, w)

\* run() has left its initial attachment loop
InitialAttachDone == spc \notin {"start", "init"} /\ sl.ret # "init"

\* the worker _attach_worker_to_queue is moving right now, NoWorker if none
Attaching == IF spc \in {"att_worker", "att_append"} THEN sl.w ELSE NoWorker

\* C1: after the initial attachment, between two scheduler operations every
\* worker is in exactly one worker list, the one of the queue the worker
\* itself is attached to; the worker inside _attach_worker_to_queue is in at
\* most one worker list.
C1_OneWorkerSet ==
    InitialAttachDone =>
        \A w \in Workers :
            IF w = Attaching
            THEN Memberships(NumModels, w) <= 1
            ELSE /\ Memberships(NumModels, w) = 1
                 /\ wq[w] \in Models
                 /\ Contains(qworkers[wq[w]], w)

\* a scheduling pass has rebound a worker and returned
C1_Witness ==
    /\ spc = "loop"
    /\ sl.moved # <<>>
    /\ wq[sl.moved[1]] # sl.bound0[sl.moved[1]]

\* a scheduling pass has returned and its history is still there
PassReturned == spc = "loop" /\ sl.bound0 # <<>>

\* C2 as stated: a worker bound, when the pass starts, to a queue whose head
\* is late at that moment is bound to the same queue when the pass returns.
C2_AsStated ==
    PassReturned =>
        \A w \in Workers : sl.bound0[w] \in sl.late0 => wq[w] = sl.bound0[w]

\* C2, amended: a worker the pass found in the worker list of a queue whose
\* head was late when the pass examined that queue is not rebound by the
\* pass: it is bound to the same queue during the rest of the pass and when
\* the pass returns.
C2_ObservedLate ==
    sl.bound0 # <<>> =>
        \A w \in sl.pinned : wq[w] = sl.bound0[w] /\ ~Contains(sl.moved, w)

\* a pass that held one worker on its late queue and rebound another one
C2_Witness ==
    /\ PassReturned
    /\ sl.pinned # {}
    /\ sl.moved # <<>>

\* C3: within one scheduling pass no worker is rebound more than once.
C3_MovedOnce == \A w \in Workers : Count(sl.moved, w) <= 1

\* a pass that moved a free worker in its first loop and then pulled another
\* worker from the available pool for a late queue that was left
C3_Witness ==
    /\ PassReturned
    /\ sl.how = <<"free", "late">>
    /\ sl.moved[1] # sl.moved[2]

\* what the scan of the current pass found: the unmanned late queues and
\* the workable queues, the head latency of a late queue, and the numbers of
\* free workers and of late queues
ScanLate == {sl.scan.late[i][2] : i \in 1..Len(sl.scan.late)}
ScanWorkable == {sl.scan.workable[i][3] : i \in 1..Len(sl.scan.workable)}
ScanLatency(m) == sl.scan.late[CHOOSE i \in 1..Len(sl.scan.late) : sl.scan.late[i][2] = m][1]

\* the moves the first loop of the pass has made so far, and the queues
\* that got a worker before the i-th move
FreeMoves == {i \in 1..Len(sl.moved) : sl.how[i] = "free"}
ServedBefore(i) == {sl.dest[j] : j \in 1..(i - 1)}

\* the first loop of the pass has ended
FreeLoopDone ==
    /\ sl.scan.done
    /\ spc \in {"keys", "late_loop", "loop"} \/ sl.ret = "late"

\* C19: the free workers go, in the order of free_workers, to the unmanned
\* late queues in order of descending head latency, one worker per queue,
\* and none of them goes to a workable queue while an unmanned late queue
\* has none; when the first loop has ended, min(F, L) late queues have got
\* a free worker.
C19_LateFirst ==
    sl.scan.done =>
        /\ \A i \in FreeMoves :
               /\ sl.moved[i] = sl.scan.free[i]
               /\ ScanLate \ ServedBefore(i) # {} =>
                      /\ sl.dest[i] \in ScanLate \ ServedBefore(i)
                      /\ \A m \in ScanLate \ ServedBefore(i) :
                             ScanLatency(m) <= ScanLatency(sl.dest[i])
        /\ FreeLoopDone =>
               Cardinality({i \in FreeMoves : sl.dest[i] \in ScanLate})
                   = Min2(Len(sl.scan.free), Len(sl.scan.late))

\* a pass found two free workers and two unmanned late queues, the younger
\* one first, and has sent the first free worker to the older one
C19_Witness ==
    /\ PassReturned
    /\ Len(sl.scan.free) = 2
    /\ Len(sl.scan.late) = 2
    /\ sl.scan.late[1][1] < sl.scan.late[2][1]
    /\ sl.how = <<"free", "free">>
    /\ sl.dest = <<sl.scan.late[2][2], sl.scan.late[1][2]>>

\* ------------------------------------------------------------------------
\* Specification of the controller with queues of different lengths.  The
\* initial states are states at the head of the drain loop, as in
\* InitBacklog, with queues that hold nothing, one late item, one item a
\* second old, or ManySize items just created (as
\* many as outweigh the second: ManySize > 1 * 5 + 1).
\* ------------------------------------------------------------------------
ManySize == 7
PressureClock == SOFT_DEADLINE + 2

\* creation times of the items of one queue
Late1 == <<0>>
Old1 == <<PressureClock - 1>>
Many == [i \in 1..ManySize |-> PressureClock]

RECURSIVE LoadUpTo(_, _)
LoadUpTo(c, i) == IF i = 0 THEN 0 ELSE Len(c[ModelList[i]]) + LoadUpTo(c, i - 1)

\* the first queue is empty, the second empty or long, the third empty or
\* late, the fourth empty or old
PressureLoads ==
    { c \in [Models -> {<<>>, Late1, Old1, Many}] :
        /\ c[ModelList[1]] = <<>>
        /\ c[ModelList[2]] \in {<<>>, Many}
        /\ c[ModelList[3]] \in {<<>>, Late1}
        /\ c[ModelList[4]] \in {<<>>, Old1}
        /\ LoadUpTo(c, NumModels) <= QUEUE_MAX_SIZE }

PressureItem(m, i, ct) ==
    [id |-> (ModelIndex(m) - 1) * ManySize + i, model |-> m, ct |-> ct, images |-> FALSE,
     err |-> "unknown"]

InitPressure ==
    /\ CodecIdle
    /\ AdmissionIdle
    /\ AuxIdle
    /\ clock = PressureClock
    /\ stop = FALSE
    /\ work_queue = <<>>
    /\ result_queue = <<>>
    /\ \E c \in PressureLoads :
           /\ qlist = [m \in Models |-> [i \in 1..Len(c[m]) |-> PressureItem(m, i, c[m][i])]]
           /\ nsub = LoadUpTo(c, NumModels)
    /\ \E a \in BacklogBindings :
           /\ wq = a
           /\ wopt = a
           /\ backend = a
           /\ qworkers = [m \in Models |-> SelectSeq(WorkerList, LAMBDA w : a[w] = m)]
    /\ spc = "count"
    /\ sl = [SL0 EXCEPT !.idx = 1]
    /\ attach_count = NumWorkers
    /\ locks = Unlocked
    /\ tally = NoTally
    /\ qhist = [m \in Models |-> [put |-> Ids(qlist[m]), got |-> <<>>]]
    /\ wstop = [w \in Workers |-> FALSE]
    /\ wpc = [w \in Workers |-> "pull"]
    /\ witem = [w \in Workers |-> NoneItem]

NextPressure ==
    \/ SchedRunning
    \/ \E w \in Workers : WorkerRunning(w, {"ok"})

SpecPressure == InitPressure /\ [][NextPressure]_vars

\* latency * 5 + wqsize of a workable queue, from what the scan read
ScanPressure(m) ==
    LET e == sl.scan.workable[CHOOSE i \in 1..Len(sl.scan.workable) : sl.scan.workable[i][3] = m]
    IN  e[1] * 5 + e[2]

\* C20: once no unmanned late queue is left without a worker, the free
\* workers go to the workable queues in descending order of latency * 5 +
\* wqsize, one worker per queue; the first loop moves min(F, L + W) free
\* workers, and a free worker that was not moved is bound, when the pass
\* returns, to the queue it was bound to when the pass began.
C20_WorkableByPressure ==
    sl.scan.done =>
        /\ \A i \in FreeMoves :
               ScanLate \ ServedBefore(i) = {} =>
                   /\ sl.dest[i] \in ScanWorkable \ ServedBefore(i)
                   /\ \A m \in ScanWorkable \ ServedBefore(i) :
                          ScanPressure(m) <= ScanPressure(sl.dest[i])
        /\ FreeLoopDone =>
               Cardinality(FreeMoves)
                   = Min2(Len(sl.scan.free), Len(sl.scan.late) + Len(sl.scan.workable))
        /\ PassReturned =>
               \A i \in 1..Len(sl.scan.free) :
                   i \notin FreeMoves => wq[sl.scan.free[i]] = sl.bound0[sl.scan.free[i]]

\* a pass found two free workers, one unmanned late queue and two workable
\* queues; the first free worker went to the late queue, the second to the
\* workable queue with the younger head and the larger size
C20_Witness ==
    /\ PassReturned
    /\ Len(sl.scan.free) = 2
    /\ Len(sl.scan.late) = 1
    /\ Len(sl.scan.workable) = 2
    /\ sl.how = <<"free", "free">>
    /\ sl.dest[1] \in ScanLate
    /\ \E m \in ScanWorkable :
           \E i, j \in 1..2 :
               /\ sl.scan.workable[i][3] = m
               /\ sl.scan.workable[j][3] = sl.dest[2]
               /\ sl.scan.workable[j][1] < sl.scan.workable[i][1]
               /\ sl.scan.workable[j][2] > sl.scan.workable[i][2]

\* ------------------------------------------------------------------------
\* Specification of the controller with both workers busy: each worker is
\* bound to a queue that holds one item, the first a second old, the second
\* just created, while a late queue has no worker.
\* ------------------------------------------------------------------------
Fresh1 == <<PressureClock>>

PoolLoads ==
    { c \in [Models -> {<<>>, Late1, Old1, Fresh1}] :
        /\ c[ModelList[1]] = Old1
        /\ c[ModelList[2]] = Fresh1
        /\ c[ModelList[3]] = Late1
        /\ c[ModelList[4]] \in {<<>>, Late1} }

PoolBindings == [w \in Workers |-> IF w = WorkerList[1] THEN ModelList[1] ELSE ModelList[2]]

InitPool ==
    /\ CodecIdle
    /\ AdmissionIdle
    /\ AuxIdle
    /\ clock = PressureClock
    /\ stop = FALSE
    /\ work_queue = <<>>
    /\ result_queue = <<>>
    /\ \E c \in PoolLoads :
           /\ qlist = [m \in Models |-> [i \in 1..Len(c[m]) |-> PressureItem(m, i, c[m][i])]]
           /\ nsub = LoadUpTo(c, NumModels)
    /\ wq = PoolBindings
    /\ wopt = PoolBindings
    /\ backend = PoolBindings
    /\ qworkers = [m \in Models |-> SelectSeq(WorkerList, LAMBDA w : PoolBindings[w] = m)]
    /\ spc = "count"
    /\ sl = [SL0 EXCEPT !.idx = 1]
    /\ attach_count = NumWorkers
    /\ locks = Unlocked
    /\ tally = NoTally
    /\ qhist = [m \in Models |-> [put |-> Ids(qlist[m]), got |-> <<>>]]
    /\ wstop = [w \in Workers |-> FALSE]
    /\ wpc = [w \in Workers |-> "pull"]
    /\ witem = [w \in Workers |-> NoneItem]

NextPool ==
    \/ SchedRunning
    \/ \E w \in Workers : WorkerRunning(w, {"ok"})

SpecPool == InitPool /\ [][NextPool]_vars

\* the workers of the pool and the creation time the sort read for each
PoolWorkers == {sl.pool[i][2] : i \in 1..Len(sl.pool)}
PoolKey(w) == sl.pool[CHOOSE i \in 1..Len(sl.pool) : sl.pool[i][2] = w][1]

\* C21 as stated: every worker the second loop of a pass pulls from the
\* pool for a late queue is, among the workers the pool still holds at that
\* moment, one whose queue has the youngest head (largest creation time).
C21_AsStated ==
    \A i \in 1..Len(sl.moved) :
        sl.how[i] = "late" =>
            \A w \in PoolWorkers \ {sl.moved[j] : j \in 1..(i - 1)} :
                PoolKey(w) <= PoolKey(sl.moved[i])

\* C22 as stated: an item whose model has no queue is dropped and run()
\* goes on: the controller thread never ends on such an item (SchedPut
\* leads to "crashed" for no other item), it stands in its loop again with
\* the per-model queues as they were.
C22_AsStated == spc # "crashed"

\* the item a step of worker w has put on the result queue
Pushed(w) == result_queue'[Len(result_queue')]

\* C23: in every step in which a worker returns an item with the switch
\* message, the item is the one the worker held with nothing but the
\* message changed, its images are empty (no answer of a generation request
\* was stored), the worker's cached checkpoint is what it was, and the
\* item's model is not in it.
C23_SwitchRefused ==
    [][\A w \in Workers :
          ( /\ wpc[w] = "process"
            /\ wpc'[w] # "process"
            /\ Pushed(w).err = "switch" )
          => /\ Len(result_queue') = Len(result_queue) + 1
             /\ Pushed(w) = [witem[w] EXCEPT !.err = "switch"]
             /\ ~Pushed(w).images
             /\ wopt'[w] = wopt[w]
             /\ ~ModelInCheckpoint(witem[w].model, wopt'[w])]_vars

\* an item whose switch was refused is on the result queue, and its worker
\* still has the other checkpoint cached
C23_Witness ==
    \E i \in 1..Len(result_queue) :
        /\ result_queue[i].err = "switch"
        /\ ~result_queue[i].images
        /\ \E w \in Workers : wopt[w] \in Checkpoints /\ wopt[w] # result_queue[i].model

\* C24 as stated: a worker whose stop flag is set goes on only with the
\* item it was processing, and nothing but submitted work items is ever put
\* on the result queue.
C24_AsStated ==
    /\ \A w \in Workers : (wstop[w] /\ wpc[w] = "process") => witem[w] # NoneItem
    /\ \A i \in 1..Len(result_queue) : result_queue[i] # NoneItem

\* ------------------------------------------------------------------------
\* Specification of the start: a webui may answer the options request
\* before it names its checkpoint.
\* ------------------------------------------------------------------------
StartupModels == {"m1", "m2"}

NextStartup ==
    \/ \E m \in StartupModels : Submit(m, MaxItems)
    \/ \E w \in Workers, c \in StartCheckpoints \cup {NoKey} : BackendUp(w, c)
    \/ \E w \in Workers, c \in StartCheckpoints : BackendReady(w, c)
    \/ Stop
    \/ SchedStep
    \/ SchedShutdown
    \/ \E w \in Workers : WorkerStep(w, {"ok"})

SpecStartup == Init /\ [][NextStartup]_vars

\* worker w is being attached or is attached to a queue
Engaged(w) ==
    \/ wq[w] # NoModel
    \/ \E m \in Models : Contains(qworkers[m], w)
    \/ spc \in {"att_remove", "att_worker", "att_append"} /\ sl.w = w

\* C25: a worker that is being attached or is attached to a queue, or holds
\* an item, has options cached that name a checkpoint, and its backend
\* names one.
C25_ReadyFirst ==
    \A w \in Workers :
        (Engaged(w) \/ witem[w] # NoneItem) =>
            /\ HasCheckpoint(wopt[w])
            /\ backend[w] \notin {"down", NoKey}

\* the first worker is attached and polls its queue while the second, whose
\* webui answered without naming a checkpoint, has left its own wait and is
\* still without a queue
C25_Witness ==
    /\ wq[WorkerList[1]] # NoModel
    /\ Contains(qworkers[wq[WorkerList[1]]], WorkerList[1])
    /\ wpc[WorkerList[1]] = "pull"
    /\ wopt[WorkerList[2]] = NoKey
    /\ wpc[WorkerList[2]] = "pull"
    /\ ~Engaged(WorkerList[2])

\* every item submitted so far has been routed, processed and returned
AllReturned ==
    /\ work_queue = <<>>
    /\ Len(result_queue) = nsub
    /\ \A m \in Models : qlist[m] = <<>>
    /\ \A w \in Workers : wpc[w] # "process"

Held == {w \in Workers : wpc[w] = "process" /\ witem[w] # NoneItem}

\* C4 as stated: no work item is returned more than once (an item is held by
\* at most one worker, and is on the result queue at most once and not while
\* a worker or a queue still holds it), and every entry of the result queue
\* is one of the submitted items.
C4_AsStated ==
    /\ \A i, j \in 1..Len(result_queue) :
           i # j => result_queue[i].id # result_queue[j].id
    /\ \A v, w \in Held : v # w => witem[v].id # witem[w].id
    /\ \A w \in Held : ~Contains(Ids(result_queue), witem[w].id)
    /\ \A m \in Models : \A k \in 1..Len(qlist[m]) :
           /\ ~Contains(Ids(result_queue), qlist[m][k].id)
           /\ \A w \in Held : witem[w].id # qlist[m][k].id
    /\ \A i \in 1..Len(result_queue) : result_queue[i].id \in 1..nsub

\* ------------------------------------------------------------------------
\* Specification of the controller with its workers under fair scheduling:
\* the threads keep taking steps, every backend comes up, and main() never
\* sets the stop flag
\* ------------------------------------------------------------------------
NextLive ==
    \/ \E m \in SubmitModels : Submit(m, MaxItems)
    \/ Tick
    \/ \E w \in Workers : \E c \in StartCheckpoints : BackendUp(w, c)
    \/ SchedStep
    \/ \E w \in Workers : WorkerStep(w, AllOutcomes)

LiveSpec ==
    /\ Init
    /\ [][NextLive]_vars
    /\ WF_vars(SchedStep)
    /\ \A w \in Workers : WF_vars(\E c \in StartCheckpoints : BackendUp(w, c))
    /\ \A w \in Workers : WF_vars(WorkerStep(w, AllOutcomes))

\* C5 as stated: every item put on the submission queue is eventually on the
\* result queue.
C5_AsStated ==
    \A i \in 1..MaxItems :
        Contains(Ids(work_queue), i) ~> Contains(Ids(result_queue), i)

\* ------------------------------------------------------------------------
\* Specification of the shutdown: the controller and the worker threads
\* keep taking steps, main() may set the stop flag at any moment, and a
\* backend comes up or stays down as it pleases.  The items are of models
\* that have a queue.
\* ------------------------------------------------------------------------
StopModels == {"m1", "m2"}

NextStop ==
    \/ \E m \in StopModels : Submit(m, MaxItems)
    \/ Tick
    \/ \E w \in Workers : \E c \in StartCheckpoints : BackendUp(w, c)
    \/ Stop
    \/ SchedStep
    \/ SchedShutdown
    \/ \E w \in Workers : WorkerStep(w, AllOutcomes)

StopSpec ==
    /\ Init
    /\ [][NextStop]_vars
    /\ WF_vars(SchedStep \/ SchedShutdown)
    /\ \A w \in Workers : WF_vars(WorkerStep(w, AllOutcomes))

\* run() has returned and every worker thread has ended with its flag set
RunReturned ==
    /\ spc = "done"
    /\ \A w \in Workers : wstop[w] /\ wpc[w] = "done"

\* C13 as stated: whatever the controller is doing when its stop flag is
\* set, eventually the scheduler loop has exited, every worker's stop flag
\* is set, every worker thread has ended and run() has returned.
C13_AsStated == stop ~> RunReturned

\* ------------------------------------------------------------------------
\* Specification of the drain loop at the capacity of the per-model queues.
\* The initial state is the state a slow start leaves behind (see
\* InitBacklog) when the backlog fills the first queue up to QUEUE_MAX_SIZE; the
\* chat side then submits up to IngressItems more items.
\* ------------------------------------------------------------------------
IngressItems == 1
IngressBacklog == QUEUE_MAX_SIZE
IngressModels == {"m1"}
\* the first worker started on the checkpoint of the first model, the others
\* on the checkpoint of the second: the first pass finds them on an empty
\* queue and moves them
IngressBindings == [w \in Workers |-> IF w = WorkerList[1] THEN ModelList[1] ELSE ModelList[2]]

InitIngress ==
    /\ CodecIdle
    /\ AdmissionIdle
    /\ AuxIdle
    /\ clock = 0
    /\ nsub = IngressBacklog
    /\ stop = FALSE
    /\ work_queue = <<>>
    /\ result_queue = <<>>
    /\ qlist = [m \in Models |->
                  IF m = ModelList[1]
                  THEN [i \in 1..IngressBacklog |->
                           [id |-> i, model |-> m, ct |-> 0, images |-> FALSE, err |-> "unknown"]]
                  ELSE <<>>]
    /\ wq = IngressBindings
    /\ wopt = IngressBindings
    /\ backend = IngressBindings
    /\ qworkers = [m \in Models |-> SelectSeq(WorkerList, LAMBDA w : IngressBindings[w] = m)]
    /\ spc = "count"
    /\ sl = [SL0 EXCEPT !.idx = 1]
    /\ attach_count = NumWorkers
    /\ locks = Unlocked
    /\ tally = NoTally
    /\ qhist = [m \in Models |-> [put |-> Ids(qlist[m]), got |-> <<>>]]
    /\ wstop = [w \in Workers |-> FALSE]
    /\ wpc = [w \in Workers |-> "pull"]
    /\ witem = [w \in Workers |-> NoneItem]

NextIngress ==
    \/ \E m \in IngressModels : Submit(m, IngressBacklog + IngressItems)
    \/ SchedRunning
    \/ SchedPut
    \/ \E w \in Workers : WorkerRunning(w, {"ok"})

SpecIngress == InitIngress /\ [][NextIngress]_vars

\* _pending_work_count() evaluated in one piece
RECURSIVE PendingUpTo(_)
PendingUpTo(i) == IF i = 0 THEN 0 ELSE Len(qlist[ModelList[i]]) + PendingUpTo(i - 1)

TotalPending == PendingUpTo(NumModels)

\* C8: the total number of items in the per-model queues never exceeds
\* QUEUE_MAX_SIZE.
C8_Capacity == TotalPending <= QUEUE_MAX_SIZE

\* the queues are full, an item waits on the submission queue, and the
\* drain loop has gone on to the scheduling pass without pulling it
C8_Witness ==
    /\ TotalPending = QUEUE_MAX_SIZE
    /\ work_queue # <<>>
    /\ spc = "scan_size"

\* C17: in every queue the items are got in the order they were put: the
\* ids got so far, followed by the ids still in the list, are the ids put,
\* in the order of the puts, whatever the scheduler and the workers did in
\* between; and get on an empty list returns None and leaves it empty.
C17_Fifo ==
    \A m \in Models :
        /\ qhist[m].put = qhist[m].got \o Ids(qlist[m])
        /\ qlist[m] = <<>> => GetResult(qlist[m]) = NoneItem /\ ListAfterGet(qlist[m]) = <<>>

\* both workers hold an item of the first queue, got in the order of the
\* puts, while the item the scheduler put after the backlog still waits
C17_Witness ==
    /\ qhist[ModelList[1]].got = <<1, 2>>
    /\ witem[WorkerList[1]].id = 2
    /\ witem[WorkerList[2]].id = 1
    /\ wpc[WorkerList[1]] = "process"
    /\ wpc[WorkerList[2]] = "process"
    /\ Len(qhist[ModelList[1]].put) = IngressBacklog + IngressItems
    /\ qlist[ModelList[1]] # <<>>

\* ========================================================================
\* Part II: the chat side
\* ========================================================================
DEFAULT_IN_FLIGHT_GEN_CAP == 1

\* number of requests the users make in one run
MaxRequests == 4

\* the commands that lead to _process_request: without and with an image_url
RequestKinds == {"txt2img", "img2img"}

\* DiscordConfig.in_flight_gen_cap(user, channel): no cap is configured for
\* a user, channel, category or guild, nor a global default
InFlightGenCap(u) == DEFAULT_IN_FLIGHT_GEN_CAP

\* command_handle = str(ctx.author.id) + str(int(time.time())): user ids and
\* the seconds of an epoch each have a fixed number of digits, so the
\* concatenation is the pair
CommandHandle(u, t) == <<u, t>>

\* dict operations
DictSet(d, k, v) == [x \in DOMAIN d \cup {k} |-> IF x = k THEN v ELSE d[x]]
DictPop(d, k) == [x \in DOMAIN d \ {k} |-> d[x]]

\* the two counters an InFlightWorkCtx keeps
Counters == [user |-> user_in_flight_gen_count, chan |-> active_channels]

\* InFlightWorkCtx.__init__: the counters afterwards
CtxInit(cnt, u, ch) ==
    [user |-> [cnt.user EXCEPT ![u] = @ + 1], chan |-> [cnt.chan EXCEPT ![ch] = @ + 1]]

\* InFlightWorkCtx.close(): the counters afterwards.  The method tests
\* self.closed and never assigns it.
CtxClose_Off(cnt, c) == cnt
CtxClose(cnt, c) ==
    IF ~c.closed
    THEN [user |-> [cnt.user EXCEPT ![c.user] = @ - 1],
          chan |-> [cnt.chan EXCEPT ![c.channel] = @ - 1]]
    ELSE cnt

\* number of references to the InFlightWorkCtx of request r: the local
\* work_ctx of the _process_request coroutine while it has not returned, the
\* entries of in_flight_commands, and the local work_ctx of _send_responses
RefCount(r, rq, ifc, fw) ==
    (IF rq[r].frame THEN 1 ELSE 0)
    + Cardinality({h \in DOMAIN ifc : ifc[h] = r})
    + (IF fw = r THEN 1 ELSE 0)

\* the contexts CPython finalizes at the end of a step: alive and no longer
\* referenced
Garbage(rq, ifc, fw) ==
    {r \in 1..Len(rq) : rq[r].ctx = "live" /\ RefCount(r, rq, ifc, fw) = 0}

\* InFlightWorkCtx.__del__ of the contexts 1..i that are garbage: the
\* counters afterwards
RECURSIVE CountAfterDel(_, _, _, _, _)
CountAfterDel(i, cnt, rq, ifc, fw) ==
    IF i = 0 THEN cnt
    ELSE LET c == CountAfterDel(i - 1, cnt, rq, ifc, fw)
         IN  IF i \in Garbage(rq, ifc, fw) THEN CtxClose(c, rq[i]) ELSE c

\* InFlightWorkCtx.__init__, its last statement: a typer task is created
\* for the channel whose count the step has taken to 1
TypersAfter(cnt) ==
    [ch \in Channels |->
        IF cnt.chan[ch] = 1 /\ active_channels[ch] = 0 THEN typers[ch] + 1 ELSE typers[ch]]

\* the end of a step of the event loop: the state the step computed, then
\* the finalizers of the contexts it left unreferenced.  (held is history:
\* what the context of a request has added to the counters, less what its
\* close() calls should have taken off.)
Settle(cnt, rq, ifc, fn) ==
    /\ user_in_flight_gen_count' = CountAfterDel(Len(rq), cnt, rq, ifc, fn.work_ctx).user
    /\ active_channels' = CountAfterDel(Len(rq), cnt, rq, ifc, fn.work_ctx).chan
    /\ reqs' = [r \in 1..Len(rq) |->
                  IF r \in Garbage(rq, ifc, fn.work_ctx)
                  THEN [rq[r] EXCEPT !.ctx = "dead", !.held = @ - 1] ELSE rq[r]]
    /\ in_flight_commands' = ifc
    /\ fan' = fn
    /\ typers' = TypersAfter(cnt)

\* the requests of user u whose work item is on its way: pushed to the
\* submission queue and not yet taken from the result queue
OnTheWay(u) == {r \in 1..Len(reqs) : reqs[r].user = u /\ reqs[r].shipped /\ ~reqs[r].taken}

\* the record of a request that was turned away before a context existed
Rejected(u, ch, why) ==
    [user |-> u, channel |-> ch, handle |-> CommandHandle(u, clock), pc |-> "done",
     outcome |-> why, ctx |-> "none", closed |-> FALSE, frame |-> FALSE, shipped |-> FALSE,
     taken |-> FALSE, held |-> 0, ahead |-> Cardinality(OnTheWay(u)),
     got |-> "none", replies |-> <<>>]

\* the work item of request r as the chat side sees it
AckItem(r, h) == [id |-> r, handle |-> h, images |-> FALSE]

\* _process_request from its start to its first await.  batch_size is the
\* batch size after the default and the clamp (ClampedBatch, Part V); for a
\* request with an image it is computed after the download.
ProcessRequest(u, ch, kind, batch_size, limit) ==
    /\ Len(reqs) < limit
    /\ LET r == Len(reqs) + 1
           h == CommandHandle(u, clock)
           cnt == Counters
           made == [Rejected(u, ch, "pending") EXCEPT !.ctx = "live", !.frame = TRUE, !.held = 1]
       IN  IF Len(work_queue) > QUEUE_MAX_SIZE
           THEN /\ Settle(cnt, Append(reqs, Rejected(u, ch, "queue_full")), in_flight_commands, fan)
                /\ UNCHANGED work_queue
           ELSE IF cnt.user[u] >= InFlightGenCap(u)
           THEN /\ Settle(cnt, Append(reqs, Rejected(u, ch, "in_flight_exceeded")),
                          in_flight_commands, fan)
                /\ UNCHANGED work_queue
           ELSE IF kind = "img2img"
           THEN \* await download_image(image_url)
                /\ Settle(CtxInit(cnt, u, ch),
                          Append(reqs, [made EXCEPT !.pc = "download"]),
                          in_flight_commands, fan)
                /\ UNCHANGED work_queue
           ELSE IF batch_size = 0
           THEN \* await ctx.respond("Parameters described will use too much VRAM ...")
                /\ Settle(CtxInit(cnt, u, ch),
                          Append(reqs, [made EXCEPT !.pc = "reject", !.outcome = "out_of_memory"]),
                          in_flight_commands, fan)
                /\ UNCHANGED work_queue
           ELSE \* put, register, await ctx.respond(ack_message)
                /\ Settle(CtxInit(cnt, u, ch),
                          Append(reqs, [made EXCEPT !.pc = "ack", !.shipped = TRUE]),
                          DictSet(in_flight_commands, h, r), fan)
                /\ work_queue' = Append(work_queue, AckItem(r, h))
    /\ UNCHANGED <<clock, result_queue, pipevars, codvars, auxvars>>

\* _process_request after download_image has returned: image is None or a
\* batch size of 0 ends the request with a message, else the item is put
\* and registered
AfterDownload(r, image_ok, batch_size) ==
    /\ r \in 1..Len(reqs)
    /\ reqs[r].pc = "download"
    /\ IF ~image_ok
       THEN \* await ctx.respond("Unable to retrieve image ...")
            /\ Settle(Counters, [reqs EXCEPT ![r].pc = "reject", ![r].outcome = "bad_image"],
                      in_flight_commands, fan)
            /\ UNCHANGED work_queue
       ELSE IF batch_size = 0
       THEN /\ Settle(Counters, [reqs EXCEPT ![r].pc = "reject", ![r].outcome = "out_of_memory"],
                      in_flight_commands, fan)
            /\ UNCHANGED work_queue
       ELSE /\ Settle(Counters,
                      [reqs EXCEPT ![r].pc = "ack", ![r].shipped = TRUE],
                      DictSet(in_flight_commands, reqs[r].handle, r), fan)
            /\ work_queue' = Append(work_queue, AckItem(r, reqs[r].handle))
    /\ UNCHANGED <<clock, result_queue, pipevars, codvars, auxvars>>

\* _process_request returns after the message of a rejection was sent
AfterReject(r) ==
    /\ r \in 1..Len(reqs)
    /\ reqs[r].pc = "reject"
    /\ Settle(Counters, [reqs EXCEPT ![r].pc = "done", ![r].frame = FALSE],
              in_flight_commands, fan)
    /\ UNCHANGED <<clock, work_queue, result_queue, pipevars, codvars, auxvars>>

\* _process_request returns after the ack message was sent
AfterAck(r) ==
    /\ r \in 1..Len(reqs)
    /\ reqs[r].pc = "ack"
    /\ Settle(Counters,
              [reqs EXCEPT ![r].pc = "done", ![r].outcome = "admitted", ![r].frame = FALSE],
              in_flight_commands, fan)
    /\ UNCHANGED <<clock, work_queue, result_queue, pipevars, codvars, auxvars>>

\* the controller and a worker (Part I) carry the i-th item of the
\* submission queue to the result queue
\* with images, or with none and an error_message
Generate(i, images) ==
    /\ i \in 1..Len(work_queue)
    /\ result_queue' = Append(result_queue, [work_queue[i] EXCEPT !.images = images])
    /\ work_queue' = [k \in 1..(Len(work_queue) - 1) |->
                        IF k < i THEN work_queue[k] ELSE work_queue[k + 1]]
    /\ UNCHANGED <<clock, pipevars, admvars, codvars, auxvars>>

\* the keys of _config["channels"]
ConfiguredChannels == {ChannelList[1], ChannelList[2]}
\* the channels whose entry has "img_spoiler_tag": true
SpoilerChannels == {ChannelList[2]}

\* DiscordConfig.get_channel_dict(channel_id): the entry, or None
get_channel_dict(ch) == IF ch \in ConfiguredChannels THEN "dict" ELSE "none"

\* DiscordConfig.channel_requires_spoiler_tag(channel_id); `in` on None
\* raises TypeError
channel_requires_spoiler_tag(ch) ==
    IF get_channel_dict(ch) = "none" THEN "raise"
    ELSE IF ch \in SpoilerChannels THEN "yes" ELSE "no"

\* the reply of _send_responses to an item with images (its file name) or
\* without; "raise" when the task ends instead
Reply(images, ch) ==
    IF ~images THEN "error"
    ELSE IF channel_requires_spoiler_tag(ch) = "raise" THEN "raise"
    ELSE IF channel_requires_spoiler_tag(ch) = "yes" THEN "SPOILER_ai_image.png"
    ELSE "ai_img.png"

\* _send_responses: one iteration that gets an item.  The pop of a handle
\* that is not registered raises KeyError, which ends the task, and so does
\* the TypeError of channel_requires_spoiler_tag.  (got and replies are
\* history: what the item carried and the replies made for it.)
SendResponses ==
    /\ fan.pc = "run"
    /\ result_queue # <<>>
    /\ LET it == Head(result_queue)
           rq == [reqs EXCEPT ![it.id].taken = TRUE,
                              ![it.id].got = IF it.images THEN "images" ELSE "error"]
       IN  IF it.handle \in DOMAIN in_flight_commands
           THEN LET r == in_flight_commands[it.handle]
                    reply == Reply(it.images, reqs[r].channel)
                    closed == [rq EXCEPT ![r].held = @ - 1]
                IN  Settle(CtxClose(Counters, reqs[r]),
                           IF reply = "raise" THEN closed
                           ELSE [closed EXCEPT ![it.id].replies = Append(@, reply)],
                           DictPop(in_flight_commands, it.handle),
                           [pc |-> IF reply = "raise" THEN "ended" ELSE "run", work_ctx |-> r])
           ELSE Settle(Counters, rq, in_flight_commands,
                       [pc |-> "ended", work_ctx |-> NoRequest])
    /\ result_queue' = Tail(result_queue)
    /\ UNCHANGED <<clock, work_queue, pipevars, codvars, auxvars>>

\* ------------------------------------------------------------------------
\* Specification of the chat side; the controller never starts on its own
\* account here, Generate stands for it
\* ------------------------------------------------------------------------
InitAdmission == ControlIdle /\ AdmissionIdle /\ CodecIdle /\ AuxIdle

\* the channel the requests of this specification come from, and their
\* batch sizes after the clamp
AdmissionChannels == {ChannelList[1]}
AdmissionBatches == {0, 1}

NextAdmission ==
    \/ \E u \in Users : \E ch \in AdmissionChannels : \E kind \in RequestKinds :
       \E batch_size \in AdmissionBatches :
           ProcessRequest(u, ch, kind, batch_size, MaxRequests)
    \/ \E r \in 1..MaxRequests : \E image_ok \in BOOLEAN : \E batch_size \in AdmissionBatches :
           AfterDownload(r, image_ok, batch_size)
    \/ \E r \in 1..MaxRequests : AfterReject(r)
    \/ \E r \in 1..MaxRequests : AfterAck(r)
    \/ \E i \in 1..MaxRequests : Generate(i, TRUE)
    \/ SendResponses
    \/ Tick

SpecAdmission == InitAdmission /\ [][NextAdmission]_vars

\* the requests of user u whose work item was pushed
Admitted(u) == {r \in 1..Len(reqs) : reqs[r].user = u /\ reqs[r].shipped}

TyperPoll(ch) ==
    /\ typers[ch] > 0
    /\ ~(active_channels[ch] > 0)
    /\ typers' = [typers EXCEPT ![ch] = @ - 1]
    /\ UNCHANGED <<clock, work_queue, result_queue, pipevars, codvars, auxvars,
                   user_in_flight_gen_count, active_channels, in_flight_commands, reqs, fan>>

\* ------------------------------------------------------------------------
\* Specification of the replies: requests without an image from every
\* channel check_channel lets through, items that come back with images or
\* with an error_message
\* ------------------------------------------------------------------------
FanoutBatches == {1}
FanoutUsers == {1}
FanoutChannels == {ChannelList[1], ChannelList[3]}

NextFanout ==
    \/ \E u \in FanoutUsers : \E ch \in FanoutChannels : \E batch_size \in FanoutBatches :
           ProcessRequest(u, ch, "txt2img", batch_size, MaxRequests)
    \/ \E r \in 1..MaxRequests : AfterAck(r)
    \/ \E i \in 1..MaxRequests : \E images \in BOOLEAN : Generate(i, images)
    \/ SendResponses
    \/ Tick

SpecFanout == InitAdmission /\ [][NextFanout]_vars

\* C26 as stated: for every item the fan-out task has got from the result
\* queue it has made exactly one reply, with the images when the item has
\* some and with the error_message otherwise, and it goes on serving.
C26_AsStated ==
    \A r \in 1..Len(reqs) :
        reqs[r].taken =>
            /\ Len(reqs[r].replies) = 1
            /\ reqs[r].got = "error" <=> reqs[r].replies[1] = "error"
            /\ fan.pc = "run"

\* ------------------------------------------------------------------------
\* Specification of the typing indicator: requests from one channel, some
\* of them turned away for their size, and the typer tasks polling
\* ------------------------------------------------------------------------
TypingChannels == {ChannelList[1]}

NextTyping ==
    \/ \E u \in Users : \E ch \in TypingChannels : \E batch_size \in AdmissionBatches :
           ProcessRequest(u, ch, "txt2img", batch_size, MaxRequests)
    \/ \E r \in 1..MaxRequests : AfterReject(r)
    \/ \E r \in 1..MaxRequests : AfterAck(r)
    \/ \E i \in 1..MaxRequests : Generate(i, TRUE)
    \/ SendResponses
    \/ \E ch \in TypingChannels : TyperPoll(ch)
    \/ Tick

SpecTyping == InitAdmission /\ [][NextTyping]_vars

\* the admitted requests of channel ch whose result has not been delivered
Undelivered(ch) ==
    {r \in 1..Len(reqs) : reqs[r].channel = ch /\ reqs[r].shipped /\ ~reqs[r].taken}

\* C27 as stated: a channel never has more than one typer task, and it has
\* one whenever one of its admitted requests is still without its result.
C27_AsStated ==
    \A ch \in Channels :
        /\ typers[ch] <= 1
        /\ Undelivered(ch) # {} => typers[ch] >= 1

\* ========================================================================
\* Part III: the parameter functions
\* ========================================================================
\* Python values.  A number is held in thousandths (1 == 1.0 in Python, so an
\* int and a float share the representation); a string is a sequence of
\* pieces, a name being one piece and the empty string the empty sequence.
\* Absent marks a key the dict does not have.
Absent == [k |-> "absent", n |-> 0, s |-> <<>>]
None == [k |-> "none", n |-> 0, s |-> <<>>]
Num(x) == [k |-> "num", n |-> x, s |-> <<>>]
Str(t) == [k |-> "str", n |-> 0, s |-> t]
Whole(i) == Num(i * 1000)
Name(a) == Str(<<a>>)

\* the labels of modules/consts.py
PROMPT == "prompt"
NEG_PROMPT == "negative_prompt"
BATCH_SIZE == "batch_size"
PREFIX == "prefix"
NEG_PREFIX == "neg_prefix"
STEPS == "steps"
CFG == "cfg"
SAMPLER == "sampler"
SEED == "seed"
SCALE == "scale"
DENOISING_STR == "denoising_strength"
HIGHRES_STEPS == "highres_steps"
UPSCALER == "upscaler"
WIDTH == "width"
HEIGHT == "height"
VAE == "vae"
MODEL == "model"
DENOISING_STR_IMG2IMG == "denoising_strength_img2img"
RESIZE_MODE == "resize_mode"
AUTOSIZE == "autosize"
AUTOSIZE_MAXSIZE == "autosize_maxsize"
RESIZE_SCALE == "resize_scale"
REFINER == "refiner"
REFINER_SWITCH_AT == "refiner_switch_at"
IMAGE_URL == "image_url"

PrefixKeys == {PREFIX, NEG_PREFIX}
BaseKeys == {STEPS, CFG, SAMPLER, SEED, WIDTH, HEIGHT, VAE, MODEL, REFINER, REFINER_SWITCH_AT}
UpscaleKeys == {SCALE, DENOISING_STR, HIGHRES_STEPS, UPSCALER}
Img2ImgKeys == {AUTOSIZE, AUTOSIZE_MAXSIZE, DENOISING_STR_IMG2IMG, RESIZE_MODE, RESIZE_SCALE}
\* the keys of ALL_CONFIG
ConfigKeys == PrefixKeys \cup BaseKeys \cup UpscaleKeys \cup Img2ImgKeys
\* every key a parameter dict can hold
DictKeys == ConfigKeys \cup {PROMPT, NEG_PROMPT, BATCH_SIZE, IMAGE_URL}

\* the shapes of the entries of the parameter tables
Numeric(type, default, min, max) ==
    [type |-> type, default |-> default, min |-> min.n, max |-> max.n,
     listed |-> FALSE, supported_values |-> {}]
Listed(default, supported_values) ==
    [type |-> "str", default |-> Name(default), min |-> 0, max |-> 0,
     listed |-> TRUE, supported_values |-> supported_values]
Unlisted(type, default) ==
    [type |-> type, default |-> default, min |-> 0, max |-> 0,
     listed |-> FALSE, supported_values |-> {}]

Samplers ==
    {"DPM++ 2M", "DPM++ SDE", "DPM++ 2M SDE", "DPM++ 2M SDE Heun", "DPM++ 2S a",
     "DPM++ 3M SDE", "Euler a", "Euler", "LMS", "Heun", "DPM2", "DPM2 a", "DPM fast",
     "DPM adaptive", "Restart", "DDIM", "PLMS", "LCM"}

\* ALL_CONFIG = PREFIX_PARAMS | BASE_PARAMS | UPSCALE_PARAMS | IMG2IMG_PARAMS
\* once update_config() has appended the model names it found to the
\* supported values of MODEL and REFINER (no vae file is installed).  The
\* maximum of SEED, 4294967294, is beyond the integers of the checker and is
\* held at 2147483; no seed of the model comes near either.
ALL_CONFIG(models) ==
    [name \in ConfigKeys |->
        CASE name = PREFIX -> Unlisted("str", Str(<<>>))
          [] name = NEG_PREFIX -> Unlisted("str", Str(<<>>))
          [] name = STEPS -> Numeric("int", Whole(28), Whole(0), Whole(50))
          [] name = CFG -> Numeric("float", Whole(8), Whole(0), Whole(30))
          [] name = SAMPLER -> Listed("DPM++ 2M", Samplers)
          [] name = SEED -> Numeric("int", Whole(-1), Whole(-1), Whole(2147483))
          [] name = WIDTH -> Numeric("int", Whole(512), Whole(256), Whole(1024))
          [] name = HEIGHT -> Numeric("int", Whole(512), Whole(256), Whole(1024))
          [] name = VAE -> Listed("Automatic", {"Automatic", "None"})
          [] name = MODEL -> Listed("anythingV5", models)
          [] name = REFINER -> Listed("None", {"None"} \cup models)
          [] name = REFINER_SWITCH_AT -> Numeric("float", Num(800), Whole(0), Whole(1))
          [] name = SCALE -> Numeric("float", Whole(1), Whole(1), Whole(2))
          [] name = DENOISING_STR -> Numeric("float", Num(700), Whole(0), Whole(1))
          [] name = HIGHRES_STEPS -> Numeric("int", Whole(10), Whole(1), Whole(20))
          [] name = UPSCALER -> Listed("Latent", {"Latent", "R-ESRGAN 4x+", "R-ESRGAN 4x+ Anime6B"})
          [] name = AUTOSIZE -> Unlisted("bool", Whole(1))
          [] name = AUTOSIZE_MAXSIZE -> Numeric("int", Whole(512), Whole(256), Whole(1024))
          [] name = DENOISING_STR_IMG2IMG -> Numeric("float", Num(550), Whole(0), Whole(1))
          [] name = RESIZE_MODE -> Listed("Crop and resize",
                 {"Just resize", "Crop and resize", "Resize and fill", "Just resize (latent upscale)"})
          [] name = RESIZE_SCALE -> Numeric("float", Whole(1), Num(500), Whole(2)) ]

Max2(a, b) == IF a >= b THEN a ELSE b

\* value in data["supported_values"]
Supported(v, data) == v.k = "str" /\ Len(v.s) = 1 /\ v.s[1] \in data.supported_values

\* validate_params, the branch taken for one name that is in values: the
\* value afterwards
Validated(v, data) ==
    IF data.type = "str" /\ data.listed
    THEN IF Supported(v, data) THEN v ELSE data.default
    ELSE IF data.type \in {"int", "float"}
    THEN Num(Min2(Max2(v.n, data.min), data.max))
    ELSE v

\* validate_params: max() and min() raise TypeError when the value of a
\* numeric parameter is not a number
ValidateRaises(values, config) ==
    \E name \in ConfigKeys :
        /\ values[name] # Absent
        /\ config[name].type \in {"int", "float"}
        /\ values[name].k # "num"

\* validate_params(values): the exception raised ("none" if none) and the
\* dict afterwards
validate_params(values, config) ==
    IF ValidateRaises(values, config)
    THEN [err |-> "TypeError", d |-> values]
    ELSE [err |-> "none",
          d |-> [name \in DictKeys |->
                   IF name \notin ConfigKeys THEN values[name]
                   ELSE IF values[name] # Absent THEN Validated(values[name], config[name])
                   ELSE None]]

\* ------------------------------------------------------------------------
\* Text.  A text is a sequence of pieces; the digits, the sign and the point
\* of a number are pieces of one character each.
\* ------------------------------------------------------------------------
DigitChars == <<"0", "1", "2", "3", "4", "5", "6", "7", "8", "9">>
IsDigit(c) == \E i \in 1..10 : DigitChars[i] = c
DigitValue(c) == (CHOOSE i \in 1..10 : DigitChars[i] = c) - 1

\* the decimal digits of n >= 0
RECURSIVE Digits(_)
Digits(n) == IF n < 10 THEN <<DigitChars[n + 1]>> ELSE Digits(n \div 10) \o <<DigitChars[(n % 10) + 1]>>

\* str(i) for an int i
IntText(i) == IF i < 0 THEN <<"-">> \o Digits(-i) ELSE Digits(i)

\* str(value) as an f-string inserts it: an int, a string or None
StrOf(v) ==
    CASE v.k = "num" -> IntText(v.n \div 1000)
      [] v.k = "str" -> v.s
      [] OTHER -> <<"None">>

\* f"{x:.2f}" for a number x >= 0 held in thousandths: rounded to hundredths
Fixed2(x) ==
    LET h == (x + 5) \div 10
    IN  Digits(h \div 100) \o <<".">> \o <<DigitChars[((h \div 10) % 10) + 1], DigitChars[(h % 10) + 1]>>

\* the value of a run of digits
RECURSIVE DigitsValue(_)
DigitsValue(t) ==
    IF t = <<>> THEN 0 ELSE DigitsValue(SubSeq(t, 1, Len(t) - 1)) * 10 + DigitValue(t[Len(t)])

AllDigits(t) == \A i \in 1..Len(t) : IsDigit(t[i])

\* the longest run of digits a text begins with
RECURSIVE DigitPrefix(_)
DigitPrefix(t) ==
    IF t # <<>> /\ IsDigit(Head(t)) THEN <<Head(t)>> \o DigitPrefix(Tail(t)) ELSE <<>>

\* the groups of the regular expressions, each applied to the text of one
\* field of a line.  A group that is followed by more of the pattern has to
\* take its whole field (the fields of the model hold no delimiters); a
\* group that ends the pattern takes what it can from the start of its
\* field, the rest of the line being free under re.match.
\*   (\d+?) and (\d+), followed by more
MatchDigits(t) == t # <<>> /\ AllDigits(t)
\*   (\d+) at the end of the pattern
MatchDigitsEnd(t) == DigitPrefix(t) # <<>>
\*   (.+?) and (.+)
MatchAny(t) == t # <<>>
\*   (\d*.\d{2}): digits, one character, two digits
MatchFixed2(t) ==
    /\ Len(t) >= 3
    /\ AllDigits(SubSeq(t, 1, Len(t) - 3))
    /\ IsDigit(t[Len(t) - 1])
    /\ IsDigit(t[Len(t)])

\* int(text) of a run of digits
IntOf(t) == Whole(DigitsValue(t))

\* float(text) of a text (\d*.\d{2}) matched, whose one character is the point
FloatOf(t) ==
    Num(DigitsValue(SubSeq(t, 1, Len(t) - 3)) * 1000
        + DigitValue(t[Len(t) - 1]) * 100 + DigitValue(t[Len(t)]) * 10)

\* a line of the ack message: the pattern it was made from and its fields
Line(tag, fields) == [tag |-> tag, f |-> fields]

\* make_message_str: f"{...:.2f}" raises TypeError for a value that is no
\* number
MakeRaises(values) ==
    \/ values[CFG].k # "num"
    \/ values[IMAGE_URL].k = "str" /\ values[DENOISING_STR_IMG2IMG].k # "num"
    \/ /\ values[IMAGE_URL].k # "str"
       /\ values[SCALE].k = "num" /\ values[SCALE].n > 1000
       /\ values[DENOISING_STR].k # "num"

\* make_message_str(prompt, negative_prompt, batch_size, image_url, **values),
\* called with the entries of one dict: the exception raised and the lines
\* of the message
make_message_str(values) ==
    IF MakeRaises(values) THEN [err |-> "TypeError", lines |-> <<>>]
    ELSE [err |-> "none",
          lines |->
            << Line("generating", <<StrOf(values[BATCH_SIZE]), StrOf(values[PROMPT])>>),
               Line("negative", <<StrOf(values[NEG_PROMPT])>>),
               Line("model", <<StrOf(values[MODEL]), StrOf(values[VAE]),
                               StrOf(values[WIDTH]), StrOf(values[HEIGHT])>>),
               Line("steps", <<StrOf(values[STEPS]), Fixed2(values[CFG].n),
                               StrOf(values[SAMPLER]), StrOf(values[SEED])>>) >>
            \o (IF values[IMAGE_URL].k = "str"
                THEN << Line("img2img", <<StrOf(values[RESIZE_MODE]),
                                          Fixed2(values[DENOISING_STR_IMG2IMG].n),
                                          StrOf(values[IMAGE_URL])>>) >>
                ELSE IF values[SCALE].k = "num" /\ values[SCALE].n > 1000
                THEN << Line("upscaling", <<Fixed2(values[SCALE].n), StrOf(values[UPSCALER]),
                                            StrOf(values[HIGHRES_STEPS]),
                                            Fixed2(values[DENOISING_STR].n)>>) >>
                ELSE <<>>)]

\* re.match of the patterns of parse_message_str against a line
MatchGenerating(l) == l.tag = "generating" /\ MatchDigits(l.f[1]) /\ MatchAny(l.f[2])
MatchNegative(l) == l.tag = "negative" /\ MatchAny(l.f[1])
MatchModel(l) ==
    /\ l.tag = "model"
    /\ MatchAny(l.f[1]) /\ MatchAny(l.f[2]) /\ MatchDigits(l.f[3]) /\ MatchDigitsEnd(l.f[4])
MatchSteps(l) ==
    /\ l.tag = "steps"
    /\ MatchDigits(l.f[1]) /\ MatchFixed2(l.f[2]) /\ MatchAny(l.f[3]) /\ MatchDigitsEnd(l.f[4])
MatchImg2Img(l) ==
    /\ l.tag = "img2img"
    /\ MatchAny(l.f[1]) /\ MatchFixed2(l.f[2]) /\ MatchAny(l.f[3])
MatchHires(l) ==
    /\ l.tag = "upscaling"
    /\ MatchFixed2(l.f[1]) /\ MatchAny(l.f[2]) /\ MatchDigits(l.f[3]) /\ MatchFixed2(l.f[4])

\* parse_message_str: the dict before its final validate_params, for lines
\* whose first four match
ParsedValues(lines) ==
    LET fifth == IF Len(lines) > 4 THEN lines[5] ELSE Line("none", <<>>)
        img2img == MatchImg2Img(fifth)
        hires == ~img2img /\ MatchHires(fifth)
    IN  [name \in DictKeys |->
           CASE name = SCALE -> IF hires THEN FloatOf(fifth.f[1]) ELSE Whole(1)
             [] name = BATCH_SIZE -> IntOf(lines[1].f[1])
             [] name = PROMPT -> Str(lines[1].f[2])
             [] name = NEG_PROMPT -> Str(lines[2].f[1])
             [] name = MODEL -> Str(lines[3].f[1])
             [] name = VAE -> Str(lines[3].f[2])
             [] name = WIDTH -> IntOf(lines[3].f[3])
             [] name = HEIGHT -> IntOf(DigitPrefix(lines[3].f[4]))
             [] name = STEPS -> IntOf(lines[4].f[1])
             [] name = CFG -> FloatOf(lines[4].f[2])
             [] name = SAMPLER -> Str(lines[4].f[3])
             [] name = SEED -> IntOf(DigitPrefix(lines[4].f[4]))
             [] name = RESIZE_MODE -> IF img2img THEN Str(fifth.f[1]) ELSE Absent
             [] name = DENOISING_STR_IMG2IMG -> IF img2img THEN FloatOf(fifth.f[2]) ELSE Absent
             [] name = IMAGE_URL -> IF img2img THEN Str(fifth.f[3]) ELSE Absent
             [] name = UPSCALER -> IF hires THEN Str(fifth.f[2]) ELSE Absent
             [] name = HIGHRES_STEPS -> IF hires THEN IntOf(fifth.f[3]) ELSE Absent
             [] name = DENOISING_STR -> IF hires THEN FloatOf(fifth.f[4]) ELSE Absent
             [] OTHER -> Absent]

\* parse_message_str(message_str): the exception raised and the dict
\* returned.  Fewer than four lines raise ValueError; a line among the first
\* four that its pattern does not match leaves match = None, and
\* match.group raises AttributeError.
parse_message_str(lines, config) ==
    IF Len(lines) < 4 THEN [err |-> "ValueError", d |-> <<>>]
    ELSE IF ~(MatchGenerating(lines[1]) /\ MatchNegative(lines[2])
              /\ MatchModel(lines[3]) /\ MatchSteps(lines[4]))
    THEN [err |-> "AttributeError", d |-> <<>>]
    ELSE validate_params(ParsedValues(lines), config)

\* ------------------------------------------------------------------------
\* Specification of the parameter functions: a dict is validated, rendered
\* as an ack message and parsed back, as the commands txt2img / img2img and
\* then again do
\* ------------------------------------------------------------------------
\* the model directory holds the test model, with or without the model that
\* is the default of MODEL
InstalledChoices == {{"test model"}, {"anythingV5", "test model"}}

\* the keys of the high-res group and of the img2img group, set together
HiresGroup(on) ==
    [name \in {UPSCALER, HIGHRES_STEPS, DENOISING_STR} |->
        IF ~on THEN Absent
        ELSE CASE name = UPSCALER -> Name("Latent")
               [] name = HIGHRES_STEPS -> Whole(10)
               [] OTHER -> Num(660)]

Img2ImgGroup(on) ==
    [name \in {RESIZE_MODE, DENOISING_STR_IMG2IMG, IMAGE_URL} |->
        IF ~on THEN Absent
        ELSE CASE name = RESIZE_MODE -> Name("Just resize")
               [] name = DENOISING_STR_IMG2IMG -> Num(660)
               [] OTHER -> Str(<<"u">>)]

\* the dicts handed to validate_params: the values of the test suite, and next
\* to them an empty negative prompt, an unknown model, a width out of range,
\* a cfg with three decimals, the seed -1, a scale, a refiner
InputDicts ==
    { [name \in DictKeys |->
         CASE name = PROMPT -> Str(<<"a">>)
           [] name = NEG_PROMPT -> neg
           [] name = BATCH_SIZE -> Whole(4)
           [] name = MODEL -> model
           [] name = VAE -> Name("Automatic")
           [] name = WIDTH -> width
           [] name = HEIGHT -> Whole(512)
           [] name = STEPS -> Whole(28)
           [] name = CFG -> cfg
           [] name = SAMPLER -> Name("Euler")
           [] name = SEED -> seed
           [] name = SCALE -> scale
           [] name = REFINER -> refiner
           [] name \in DOMAIN HiresGroup(hires) -> HiresGroup(hires)[name]
           [] name \in DOMAIN Img2ImgGroup(img) -> Img2ImgGroup(img)[name]
           [] OTHER -> Absent] :
        neg \in {Str(<<>>), Str(<<"b">>)},
        model \in {Name("test model"), Name("unknown model")},
        width \in {Whole(256), Whole(2000)},
        cfg \in {Num(8500), Num(8123)},
        seed \in {Whole(-1), Whole(420)},
        scale \in {Absent, Whole(1), Whole(2)},
        refiner \in {Absent, Name("None")},
        hires \in BOOLEAN,
        img \in BOOLEAN }

InitCodec ==
    /\ ControlIdle
    /\ AdmissionIdle
    /\ AuxIdle
    /\ installed \in InstalledChoices
    /\ vin \in InputDicts
    /\ cpc = "input"
    /\ vout = <<>>
    /\ msg = <<>>
    /\ parsed = <<>>

\* the caller validates its dict
Validate ==
    /\ cpc = "input"
    /\ vout' = validate_params(vin, ALL_CONFIG(installed))
    /\ cpc' = "validated"
    /\ UNCHANGED <<installed, vin, msg, parsed>>
    /\ UNCHANGED <<clock, work_queue, result_queue, pipevars, admvars, auxvars>>

\* _process_request renders the ack message
MakeMessage ==
    /\ cpc = "validated"
    /\ vout.err = "none"
    /\ msg' = make_message_str(vout.d)
    /\ cpc' = "rendered"
    /\ UNCHANGED <<installed, vin, vout, parsed>>
    /\ UNCHANGED <<clock, work_queue, result_queue, pipevars, admvars, auxvars>>

\* again parses the ack message
ParseMessage ==
    /\ cpc = "rendered"
    /\ msg.err = "none"
    /\ parsed' = parse_message_str(msg.lines, ALL_CONFIG(installed))
    /\ cpc' = "parsed"
    /\ UNCHANGED <<installed, vin, vout, msg>>
    /\ UNCHANGED <<clock, work_queue, result_queue, pipevars, admvars, auxvars>>

NextCodec ==
    \/ Validate
    \/ MakeMessage
    \/ ParseMessage

SpecCodec == InitCodec /\ [][NextCodec]_vars

\* a value a parameter may hold according to its table entry
InTable(v, data) ==
    IF data.type = "str" /\ data.listed THEN Supported(v, data)
    ELSE IF data.type \in {"int", "float"} THEN v.k = "num" /\ data.min <= v.n /\ v.n <= data.max
    ELSE TRUE

\* a valid parameter dict: every parameter it holds is a value its table
\* entry allows
ValidDict(values, config) ==
    \A name \in ConfigKeys : values[name] # Absent => InTable(values[name], config[name])

\* C9 as stated: for every valid parameter dict the ack message made from it
\* parses back to the validated dict.
C9_AsStated ==
    ValidDict(vin, ALL_CONFIG(installed)) =>
        /\ cpc = "rendered" => msg.err = "none"
        /\ cpc = "parsed" => parsed = vout

\* C10 as stated: after validate_params every parameter the dict held is a
\* value of its allow-list, or a number within [min, max].
C10_AsStated ==
    cpc \in {"validated", "rendered", "parsed"} =>
        /\ vout.err = "none"
        /\ \A name \in ConfigKeys :
               vin[name] # Absent => InTable(vout.d[name], ALL_CONFIG(installed)[name])

\* ------------------------------------------------------------------------
\* Specification of again on a message that is not an ack message as
\* make_message_str wrote it: a line was lost, a line was replaced, or a
\* line was added at the end
\* ------------------------------------------------------------------------
\* a line none of the patterns matches
OtherLine == Line("other", <<>>)

\* the sequence t without its i-th element, and with OtherLine in its place
Without(t, i) == [k \in 1..(Len(t) - 1) |-> IF k < i THEN t[k] ELSE t[k + 1]]
Replaced(t, i) == [k \in 1..Len(t) |-> IF k = i THEN OtherLine ELSE t[k]]

\* what happens to the message between the ack and the again
Damages ==
    {[op |-> "none", i |-> 0], [op |-> "extra", i |-> 0]}
    \cup {[op |-> o, i |-> i] : o \in {"drop", "replace"}, i \in 1..4}

Damaged(lines, dmg) ==
    CASE dmg.op = "drop" -> Without(lines, dmg.i)
      [] dmg.op = "replace" -> Replaced(lines, dmg.i)
      [] dmg.op = "extra" -> Append(lines, OtherLine)
      [] OTHER -> lines

\* the message again is given: the ack message, damaged
Garble(dmg) ==
    /\ cpc = "rendered"
    /\ msg.err = "none"
    /\ msg' = [msg EXCEPT !.lines = Damaged(msg.lines, dmg)]
    /\ cpc' = "given"
    /\ UNCHANGED <<installed, vin, vout, parsed>>
    /\ UNCHANGED <<clock, work_queue, result_queue, pipevars, admvars, auxvars>>

\* the exceptions the try statement of again catches
AgainCatches == {"ValueError", "KeyError", "IndexError"}

\* again, from the parse of the message on: it answers "Could not parse
\* message", or the exception leaves the command, or it goes on to
\* _process_request with the values
Again ==
    /\ cpc = "given"
    /\ parsed' = parse_message_str(msg.lines, ALL_CONFIG(installed))
    /\ cpc' = IF parsed'.err \in AgainCatches THEN "could_not_parse"
              ELSE IF parsed'.err # "none" THEN "raised"
              ELSE "process_request"
    /\ UNCHANGED <<installed, vin, vout, msg>>
    /\ UNCHANGED <<clock, work_queue, result_queue, pipevars, admvars, auxvars>>

NextAgain ==
    \/ Validate
    \/ MakeMessage
    \/ \E dmg \in Damages : Garble(dmg)
    \/ Again

SpecAgain == InitCodec /\ [][NextAgain]_vars

\* a mandatory line is missing or does not match, or there is a line that
\* no pattern matches
Malformed(lines) ==
    \/ Len(lines) < 4
    \/ ~(MatchGenerating(lines[1]) /\ MatchNegative(lines[2])
          /\ MatchModel(lines[3]) /\ MatchSteps(lines[4]))
    \/ \E k \in 5..Len(lines) : ~MatchImg2Img(lines[k]) /\ ~MatchHires(lines[k])

\* C28 as stated: again on a message with a mandatory line missing or not
\* matching, or with an unrecognized line, answers "Could not parse
\* message" and does not go on to _process_request.
C28_AsStated ==
    (cpc \in {"could_not_parse", "raised", "process_request"} /\ Malformed(msg.lines))
        => cpc = "could_not_parse"

\* ========================================================================
\* Part IV: the configuration
\* ========================================================================
\* A JSON object is a function from its keys; a key is a text (see Part
\* III): str(id) for an id, one piece for a word.
Key(word) == <<word>>

\* the ids the lookups are made with
CapUsers == {0, 1111, 2222}
CapChannels == {0, 1, 2, 3, 4, 5}
CapCategories == {10, 11}
CapGuilds == {100, 101}
\* the id of a call made without that argument (Python None)
NoId == -1

\* a channel entry with and without a cap
Capped(n) == [t \in {Key("description"), Key("in_flight_cap")} |-> Whole(n)]
Uncapped == [t \in {Key("description")} |-> Whole(0)]

\* SAMPLE_CONFIG of tests/discord_config_test.py; top is the name of the
\* object that holds the per-user caps and the default
SampleConfig(top) ==
    [o \in {top, "guilds", "categories", "channels"} |->
        CASE o = top ->
               [t \in {IntText(1111), IntText(2222), Key("default")} |->
                   IF t = IntText(1111) THEN Whole(999)
                   ELSE IF t = IntText(2222) THEN Whole(2) ELSE Whole(100)]
          [] o = "guilds" -> [t \in {IntText(100)} |-> Uncapped]
          [] o = "categories" -> [t \in {IntText(10)} |-> Uncapped]
          [] o = "channels" ->
               [t \in {IntText(c) : c \in 0..4} |->
                   IF t = IntText(4) THEN Uncapped ELSE Capped(DigitsValue(t) + 1)] ]

SAMPLE_CONFIG == SampleConfig("in_flight_cap")

\* a config whose category 10 and guild 100 carry caps and that has no
\* per-user caps
NestedConfig ==
    [o \in {"guilds", "categories", "channels"} |->
        CASE o = "guilds" -> [t \in {IntText(100)} |-> Capped(7)]
          [] o = "categories" -> [t \in {IntText(10)} |-> Capped(6)]
          [] o = "channels" -> [t \in {IntText(0), IntText(4)} |->
                                   IF t = IntText(0) THEN Capped(1) ELSE Uncapped] ]

\* DiscordConfig.__init__: the sub-objects "channels", "categories" and
\* "guilds" are created if missing
DiscordConfig(c) ==
    [o \in DOMAIN c \cup {"channels", "categories", "guilds"} |->
        IF o \in DOMAIN c THEN c[o] ELSE <<>>]

ConfigChoices ==
    {DiscordConfig(SAMPLE_CONFIG), DiscordConfig(SampleConfig("user_in_flight_caps")),
     DiscordConfig(NestedConfig), DiscordConfig(<<>>)}

\* check_dict_try_get(key, outer_key, config) with a key that is not None
check_dict_try_get(key, outer_key, c) ==
    IF outer_key \in DOMAIN c /\ key \in DOMAIN c[outer_key]
    THEN c[outer_key][key]
    ELSE None

\* one fall-back step of in_flight_gen_cap: the cap of the entry of id in
\* the object of that kind, tried while cap is None and the id was given
FallBack(c, found, kind, id) ==
    IF found = None /\ id # NoId
    THEN check_dict_try_get(Key("in_flight_cap"), IntText(id), c[kind])
    ELSE found

\* DiscordConfig.in_flight_gen_cap(user, channel_id, category_id, guild_id)
in_flight_gen_cap(c, user, channel_id, category_id, guild_id) ==
    LET c1 == check_dict_try_get(IntText(user), "user_in_flight_caps", c)
        c2 == FallBack(c, c1, "channels", channel_id)
        c3 == FallBack(c, c2, "categories", category_id)
        c4 == FallBack(c, c3, "guilds", guild_id)
        c5 == IF c4 = None THEN check_dict_try_get(Key("default"), "user_in_flight_caps", c)
              ELSE c4
    IN  IF c5 # None THEN c5 ELSE Whole(DEFAULT_IN_FLIGHT_GEN_CAP)

\* a config is loaded, then caps are looked up
InitConfig ==
    /\ ControlIdle
    /\ AdmissionIdle
    /\ CodecIdle
    /\ sd_config \in ConfigChoices
    /\ capq = <<>>
    /\ cap = <<>>
    /\ BatchIdle
    /\ PrefsIdle

LookupCap(user, channel_id, category_id, guild_id) ==
    /\ capq' = [user |-> user, channel_id |-> channel_id,
                category_id |-> category_id, guild_id |-> guild_id]
    /\ cap' = in_flight_gen_cap(sd_config, user, channel_id, category_id, guild_id)
    /\ UNCHANGED <<sd_config, batvars, prefvars, clock, work_queue, result_queue, pipevars, admvars, codvars>>

NextConfig ==
    \E user \in CapUsers : \E channel_id \in CapChannels \cup {NoId} :
        \E category_id \in CapCategories \cup {NoId} : \E guild_id \in CapGuilds \cup {NoId} :
            LookupCap(user, channel_id, category_id, guild_id)

SpecConfig == InitConfig /\ [][NextConfig]_vars

\* the cap the sample config gives a user in a channel when the per-user
\* caps and the default are read from its "in_flight_cap" object
SampleCap(user, channel_id) ==
    IF user = 1111 THEN Whole(999)
    ELSE IF user = 2222 THEN Whole(2)
    ELSE IF channel_id \in 0..3 THEN Whole(channel_id + 1)
    ELSE Whole(100)

\* C11 as stated: with the sample config, whose per-user caps and default
\* are in "in_flight_cap", a lookup by user and channel (channels 0..4)
\* returns 999 for user 1111 and 2 for user 2222 in every channel, and for
\* an unknown user the channel's cap in channels 0..3 and 100 in channel 4.
C11_AsStated ==
    ( /\ sd_config = DiscordConfig(SAMPLE_CONFIG)
      /\ capq # <<>>
      /\ capq.channel_id \in 0..4
      /\ capq.category_id = NoId
      /\ capq.guild_id = NoId )
    => cap = SampleCap(capq.user, capq.channel_id)

\* ========================================================================
\* Part V: the batch size of a request
\* ========================================================================
\* Widths and heights are pixels; a scale is held in halves (2 is 1.0, 3 is
\* 1.5, 4 is 2.0); a pixel count is held in units of PixelUnit pixels, which
\* divides every count the model computes.
PixelUnit == 4096
MAX_PIXEL_COUNT_LATENT == 1536 * 1536
MAX_PIXEL_COUNT_ESRGAN == 1024 * 2000
NoScale == 0
NoBatch == -100
NoUpscaler == "none"

\* None -> 1
ScaleOr1(scale) == IF scale = NoScale THEN 2 ELSE scale

\* width * height * scale * scale, in units
PixelCount(width, height, scale) ==
    (((width * height) \div PixelUnit) * (scale * scale)) \div 4

\* max_batch_size(width, height, scale, upscaler)
max_batch_size(width, height, scale, upscaler) ==
    LET up == IF upscaler = NoUpscaler THEN "Latent" ELSE upscaler
        max_pixel_count == IF up = "Latent" THEN MAX_PIXEL_COUNT_LATENT
                           ELSE MAX_PIXEL_COUNT_ESRGAN
        pixel_count == PixelCount(width, height, ScaleOr1(scale))
    IN  Min2((max_pixel_count \div PixelUnit) \div pixel_count, 4)

\* default_batch_size(width, height, scale)
default_batch_size(width, height, scale) ==
    IF PixelCount(width, height, ScaleOr1(scale)) > (768 * 768) \div PixelUnit THEN 2 ELSE 4

\* _process_request, lines 195-204: the batch size after the default and the
\* clamp
ClampedBatch(r) ==
    Min2(IF r.batch_size = NoBatch
         THEN default_batch_size(r.width, r.height, r.scale)
         ELSE r.batch_size,
         max_batch_size(r.width, r.height, r.scale, r.upscaler))

\* the requests: what a caller can pass as batch_size (nothing, a negative
\* number, zero, numbers up to and beyond the ceiling) and validated sizes
BatchSizes == {NoBatch, -2, 0, 1, 2, 3, 4, 5, 9}
Sides == {256, 512, 768, 1024}
Scales == {NoScale, 2, 3, 4}
Upscalers == {NoUpscaler, "Latent", "R-ESRGAN 4x+"}

BatchRequests ==
    [batch_size : BatchSizes, width : Sides, height : Sides, scale : Scales,
     upscaler : Upscalers]

\* a request reaches the step
InitBatch ==
    /\ ControlIdle
    /\ AdmissionIdle
    /\ CodecIdle
    /\ ConfigIdle
    /\ PrefsIdle
    /\ breq \in BatchRequests
    /\ bout = <<>>

\* _process_request, lines 195-236 as far as the batch size goes: a clamped
\* size of 0 is answered with the VRAM message, any other is the batch_size
\* of the work item that is pushed
BatchStep ==
    /\ bout = <<>>
    /\ bout' = IF ClampedBatch(breq) = 0
               THEN [pushed |-> FALSE, batch_size |-> 0]
               ELSE [pushed |-> TRUE, batch_size |-> ClampedBatch(breq)]
    /\ UNCHANGED <<breq, cfgvars, prefvars, clock, work_queue, result_queue, pipevars, admvars, codvars>>

NextBatch == BatchStep

SpecBatch == InitBatch /\ [][NextBatch]_vars

\* C14 as stated: the work item that is pushed has
\* 1 <= batch_size <= max_batch_size(width, height, scale, upscaler), for
\* every batch_size the caller passed, and a request whose clamped batch
\* size is 0 is rejected.
C14_AsStated ==
    bout # <<>> =>
        /\ bout.pushed =>
              /\ 1 <= bout.batch_size
              /\ bout.batch_size <= max_batch_size(breq.width, breq.height, breq.scale, breq.upscaler)
        /\ ClampedBatch(breq) = 0 => ~bout.pushed

\* ========================================================================
\* Part VI: the preferences store
\* ========================================================================
\* Preference values are the Python values of Part III with the types JSON
\* tells apart: an int is a Num, a bool and a float carry their own tag.
Flag(b) == [k |-> "bool", n |-> IF b THEN 1000 ELSE 0, s |-> <<>>]
Real(x) == [k |-> "float", n |-> x, s |-> <<>>]

\* the decimals of a float held in thousandths, as repr() prints them: at
\* least one digit, no trailing zeros
Decimals(f) ==
    IF f % 100 = 0 THEN <<DigitChars[(f \div 100) + 1]>>
    ELSE IF f % 10 = 0 THEN <<DigitChars[(f \div 100) + 1], DigitChars[((f \div 10) % 10) + 1]>>
    ELSE <<DigitChars[(f \div 100) + 1], DigitChars[((f \div 10) % 10) + 1], DigitChars[(f % 10) + 1]>>

\* json.dump of one value: the text written
JsonText(v) ==
    CASE v.k = "str" -> <<"\"">> \o v.s \o <<"\"">>
      [] v.k = "num" -> IntText(v.n \div 1000)
      [] v.k = "float" -> Digits(v.n \div 1000) \o <<".">> \o Decimals(v.n % 1000)
      [] v.k = "bool" -> IF v.n # 0 THEN <<"true">> ELSE <<"false">>
      [] OTHER -> <<"null">>

\* position of the decimal point of a text, 0 if it has none
PointAt(t) == IF \E i \in 1..Len(t) : t[i] = "." THEN CHOOSE i \in 1..Len(t) : t[i] = "." ELSE 0

\* the thousandths a run of one to three decimals stands for
RECURSIVE Thousandths(_, _)
Thousandths(t, weight) ==
    IF t = <<>> THEN 0 ELSE DigitValue(Head(t)) * weight + Thousandths(Tail(t), weight \div 10)

\* json.load of one value: the value a text stands for
JsonValue(t) ==
    IF Head(t) = "\"" THEN Str(SubSeq(t, 2, Len(t) - 1))
    ELSE IF t = <<"true">> THEN Flag(TRUE)
    ELSE IF t = <<"false">> THEN Flag(FALSE)
    ELSE IF t = <<"null">> THEN None
    ELSE IF PointAt(t) # 0
    THEN Real(DigitsValue(SubSeq(t, 1, PointAt(t) - 1)) * 1000
              + Thousandths(SubSeq(t, PointAt(t) + 1, Len(t)), 100))
    ELSE IntOf(t)

\* the users and preference names of the calls, in the order a dict that
\* holds them all lists them
PrefUsers == <<1, 2>>
PrefNames == <<"foo_str", "bar_int">>
PrefValues == {Name("foooo"), Whole(1), Flag(TRUE), Real(1690), Real(2000), None}

\* number of set_preference calls and of saves in one run
MaxSets == 3
MaxSaves == 2

\* UserPreferences.get_preference(user, pref_name) on the dict p
get_preference(p, user, pref_name) ==
    IF IntText(user) \in DOMAIN p /\ pref_name \in DOMAIN p[IntText(user)]
    THEN p[IntText(user)][pref_name]
    ELSE None

\* UserPreferences.set_preference(user, pref_name, value): the dict afterwards
set_preference_First(p, user, pref_name, value) ==
    IF IntText(user) \in DOMAIN p /\ pref_name \in DOMAIN p[IntText(user)]
    THEN p
    ELSE DictSet(p, IntText(user),
                 DictSet(IF IntText(user) \in DOMAIN p THEN p[IntText(user)] ELSE <<>>,
                         pref_name, value))
set_preference(p, user, pref_name, value) ==
    DictSet(p, IntText(user),
            DictSet(IF IntText(user) \in DOMAIN p THEN p[IntText(user)] ELSE <<>>,
                    pref_name, value))

\* every <<user key, name>> a dict can hold, in order
AllSlots ==
    [i \in 1..(Len(PrefUsers) * Len(PrefNames)) |->
        <<IntText(PrefUsers[((i - 1) \div Len(PrefNames)) + 1]),
          PrefNames[((i - 1) % Len(PrefNames)) + 1]>>]

\* json.dump(p, f): the members written, one <<user key, name, text>> each
Doc(p) ==
    LET held == SelectSeq(AllSlots, LAMBDA e : e[1] \in DOMAIN p /\ e[2] \in DOMAIN p[e[1]])
    IN  [i \in 1..Len(held) |-> <<held[i][1], held[i][2], JsonText(p[held[i][1]][held[i][2]])>>]

\* json.load(f) of a complete document: the dict
Parsed(entries) ==
    [u \in {entries[i][1] : i \in 1..Len(entries)} |->
        [name \in {entries[i][2] : i \in {j \in 1..Len(entries) : entries[j][1] = u}} |->
            JsonValue(entries[CHOOSE i \in 1..Len(entries) :
                                  entries[i][1] = u /\ entries[i][2] = name][3])]]

\* load_preferences(path): the dict of the UserPreferences returned, or the
\* exception raised
load_preferences(file) ==
    IF ~file.exists THEN [err |-> "none", d |-> <<>>]
    ELSE IF file.complete THEN [err |-> "none", d |-> Parsed(file.entries)]
    ELSE [err |-> "JSONDecodeError", d |-> <<>>]

\* main(): preferences = load_preferences(preferences_file), no file yet
InitPrefs ==
    /\ ControlIdle
    /\ AdmissionIdle
    /\ CodecIdle
    /\ ConfigIdle
    /\ BatchIdle
    /\ preferences = load_preferences(NoFile).d
    /\ pfile = NoFile
    /\ pst = [pc |-> "idle", nsets |-> 0, nsaves |-> 0, last |-> <<>>, snap |-> <<>>,
              prev |-> NoFile, loaded |-> <<>>]

PrefsRest == <<cfgvars, batvars, clock, work_queue, result_queue, pipevars, admvars, codvars>>

\* a command calls set_preference while no save is under way
SetPreference(user, pref_name, value) ==
    /\ pst.pc = "idle"
    /\ pst.nsets < MaxSets
    /\ preferences' = set_preference(preferences, user, pref_name, value)
    /\ pst' = [pst EXCEPT !.nsets = @ + 1,
                          !.last = DictSet(pst.last, <<user, pref_name>>, value)]
    /\ UNCHANGED <<pfile, PrefsRest>>

\* save_preferences: open(path, 'w') creates or truncates the file
SaveOpen ==
    /\ pst.pc = "idle"
    /\ pst.nsaves < MaxSaves
    /\ pfile' = [exists |-> TRUE, complete |-> FALSE, entries |-> <<>>]
    /\ pst' = [pst EXCEPT !.pc = "saving", !.nsaves = @ + 1, !.prev = pfile]
    /\ UNCHANGED <<preferences, PrefsRest>>

\* save_preferences: json.dump writes the next member
SaveWrite ==
    /\ pst.pc = "saving"
    /\ Len(pfile.entries) < Len(Doc(preferences))
    /\ pfile' = [pfile EXCEPT !.entries = Append(@, Doc(preferences)[Len(pfile.entries) + 1])]
    /\ UNCHANGED <<preferences, pst, PrefsRest>>

\* save_preferences: json.dump writes the end of the document and the file
\* is closed
SaveClose ==
    /\ pst.pc = "saving"
    /\ Len(pfile.entries) = Len(Doc(preferences))
    /\ pfile' = [pfile EXCEPT !.complete = TRUE]
    /\ pst' = [pst EXCEPT !.pc = "idle", !.snap = pst.last, !.prev = pfile']
    /\ UNCHANGED <<preferences, PrefsRest>>

\* load_preferences into a fresh UserPreferences, after a save
LoadPreferences ==
    /\ pst.pc = "idle"
    /\ pst.nsaves > 0
    /\ pst' = [pst EXCEPT !.pc = "loaded", !.loaded = load_preferences(pfile).d]
    /\ UNCHANGED <<preferences, pfile, PrefsRest>>

\* the process is killed
Crash ==
    /\ pst.pc \in {"idle", "saving"}
    /\ pst' = [pst EXCEPT !.pc = "crashed"]
    /\ UNCHANGED <<preferences, pfile, PrefsRest>>

NextPrefs ==
    \/ \E i \in 1..Len(PrefUsers) : \E j \in 1..Len(PrefNames) : \E value \in PrefValues :
           SetPreference(PrefUsers[i], PrefNames[j], value)
    \/ SaveOpen
    \/ SaveWrite
    \/ SaveClose
    \/ LoadPreferences
    \/ Crash

SpecPrefs == InitPrefs /\ [][NextPrefs]_vars

\* C15: after set_preference calls, a save and a load into a fresh
\* instance, get_preference returns the last value set for every user and
\* name that was set and None for every other.
C15_RoundTrip ==
    (pst.pc = "loaded" /\ pst.snap = pst.last) =>
        \A i \in 1..Len(PrefUsers) : \A j \in 1..Len(PrefNames) :
            get_preference(pst.loaded, PrefUsers[i], PrefNames[j])
                = IF <<PrefUsers[i], PrefNames[j]>> \in DOMAIN pst.last
                  THEN pst.last[<<PrefUsers[i], PrefNames[j]>>]
                  ELSE None

\* a value was set and replaced by a float, another user's value was set,
\* one name was never set, and the store was saved and loaded
C15_Witness ==
    /\ pst.pc = "loaded"
    /\ pst.snap = pst.last
    /\ pst.nsets = MaxSets
    /\ DOMAIN pst.last = {<<1, "foo_str">>, <<2, "bar_int">>}
    /\ pst.last[<<1, "foo_str">>] = Real(1690)
    /\ preferences[IntText(2)]["bar_int"] = Flag(TRUE)

\* C16 as stated: if the process is killed at any point, the file holds the
\* complete content it had before the save under way, or the complete new
\* content, never an empty or partial file.
C16_AsStated ==
    pst.pc = "crashed" =>
        \/ pfile = pst.prev
        \/ pfile = [exists |-> TRUE, complete |-> TRUE, entries |-> Doc(preferences)]

\* ========================================================================
\* Part VII: admission with a full submission queue
\* ========================================================================
\* The submission queue holds more than QUEUE_MAX_SIZE items only when more
\* than QUEUE_MAX_SIZE requests are on their way at once.  The initial state
\* is the one a crowd of other users leaves behind, one admitted request
\* each, while the controller has not yet taken any of their items.
CrowdList == [i \in 1..(QUEUE_MAX_SIZE + 1) |-> 10 + i]
CrowdUsers == {CrowdList[i] : i \in 1..Len(CrowdList)}
CrowdChannel == ChannelList[2]

\* the request of the i-th user of the crowd, admitted at time 0
CrowdRequest(i) ==
    [user |-> CrowdList[i], channel |-> CrowdChannel, handle |-> CommandHandle(CrowdList[i], 0),
     pc |-> "done", outcome |-> "admitted", ctx |-> "live", closed |-> FALSE, frame |-> FALSE,
     shipped |-> TRUE, taken |-> FALSE, held |-> 1, ahead |-> 0,
     got |-> "none", replies |-> <<>>]

\* the user whose requests come on top of the crowd's, the channel they
\* come from and their number
RejectionUsers == {1}
RejectionChannels == {ChannelList[1]}
MaxNew == 4

\* what these requests ask for: a size that fits, and one whose batch size
\* is clamped to 0 (1024 x 1024 at scale 2.0, scales being held in halves)
RejectionBatches ==
    {[batch_size |-> NoBatch, width |-> 512, height |-> 512, scale |-> NoScale,
      upscaler |-> NoUpscaler],
     [batch_size |-> NoBatch, width |-> 1024, height |-> 1024, scale |-> 4,
      upscaler |-> "Latent"]}

InitRejection ==
    /\ CodecIdle
    /\ AuxIdle
    /\ clock = 0
    /\ nsub = 0
    /\ stop = FALSE
    /\ work_queue = [i \in 1..Len(CrowdList) |-> AckItem(i, CommandHandle(CrowdList[i], 0))]
    /\ result_queue = <<>>
    /\ qlist = [m \in Models |-> <<>>]
    /\ qworkers = [m \in Models |-> <<>>]
    /\ spc = "start"
    /\ sl = SL0
    /\ attach_count = 0
    /\ locks = Unlocked
    /\ tally = NoTally
    /\ qhist = [m \in Models |-> [put |-> <<>>, got |-> <<>>]]
    /\ backend = [w \in Workers |-> "down"]
    /\ wopt = [w \in Workers |-> "none"]
    /\ wq = [w \in Workers |-> NoModel]
    /\ wstop = [w \in Workers |-> FALSE]
    /\ wpc = [w \in Workers |-> "unstarted"]
    /\ witem = [w \in Workers |-> NoneItem]
    /\ user_in_flight_gen_count = [u \in Users \cup CrowdUsers |-> IF u \in CrowdUsers THEN 1 ELSE 0]
    /\ active_channels = [ch \in Channels |-> IF ch = CrowdChannel THEN Len(CrowdList) ELSE 0]
    /\ typers = [ch \in Channels |-> IF ch = CrowdChannel THEN 1 ELSE 0]
    /\ in_flight_commands =
           [h \in {CommandHandle(CrowdList[i], 0) : i \in 1..Len(CrowdList)} |->
               CHOOSE i \in 1..Len(CrowdList) : h = CommandHandle(CrowdList[i], 0)]
    /\ reqs = [i \in 1..Len(CrowdList) |-> CrowdRequest(i)]
    /\ fan = [pc |-> "run", work_ctx |-> NoRequest]

NextRejection ==
    \/ \E u \in RejectionUsers : \E ch \in RejectionChannels : \E kind \in RequestKinds :
       \E b \in RejectionBatches :
           ProcessRequest(u, ch, kind, ClampedBatch(b), Len(CrowdList) + MaxNew)
    \/ \E r \in 1..(Len(CrowdList) + MaxNew) : \E image_ok \in BOOLEAN :
       \E b \in RejectionBatches :
           AfterDownload(r, image_ok, ClampedBatch(b))
    \/ \E r \in 1..(Len(CrowdList) + MaxNew) : AfterReject(r)
    \/ \E r \in 1..(Len(CrowdList) + MaxNew) : AfterAck(r)
    \/ Generate(1, TRUE)
    \/ SendResponses

SpecRejection == InitRejection /\ [][NextRejection]_vars

\* the outcomes of a request that was turned away
Rejections == {"queue_full", "in_flight_exceeded", "bad_image", "out_of_memory"}

\* what the contexts of the requests 1..i of user u, and of channel ch,
\* hold of the counters
RECURSIVE HeldByUser(_, _)
HeldByUser(u, i) ==
    IF i = 0 THEN 0
    ELSE (IF reqs[i].user = u THEN reqs[i].held ELSE 0) + HeldByUser(u, i - 1)

RECURSIVE HeldByChannel(_, _)
HeldByChannel(ch, i) ==
    IF i = 0 THEN 0
    ELSE (IF reqs[i].channel = ch THEN reqs[i].held ELSE 0) + HeldByChannel(ch, i - 1)

\* C18: a request that was turned away, for whichever of the four reasons,
\* has no work item on the submission queue or beyond and no entry in
\* in_flight_commands, and once its rejection has completed its context is
\* gone and holds nothing of the user's in-flight count or of the channel's
\* activity count, both of which are exactly what the contexts of the
\* other requests hold.
C18_RejectedLeavesNothing ==
    /\ \A r \in 1..Len(reqs) :
           reqs[r].outcome \in Rejections =>
               /\ ~reqs[r].shipped
               /\ \A i \in 1..Len(work_queue) : work_queue[i].id # r
               /\ \A i \in 1..Len(result_queue) : result_queue[i].id # r
               /\ \A h \in DOMAIN in_flight_commands : in_flight_commands[h] # r
               /\ reqs[r].pc = "done" => reqs[r].held = 0 /\ reqs[r].ctx # "live"
    /\ \A u \in DOMAIN user_in_flight_gen_count :
           user_in_flight_gen_count[u] = HeldByUser(u, Len(reqs))
    /\ \A ch \in Channels : active_channels[ch] = HeldByChannel(ch, Len(reqs))

\* one user was turned away for each of the four reasons, every rejection
\* has completed, and the user's count and the channels' counts are back at
\* what they were before the four requests
C18_Witness ==
    /\ Len(reqs) = Len(CrowdList) + MaxNew
    /\ {reqs[r].outcome : r \in (Len(CrowdList) + 1)..Len(reqs)} = Rejections
    /\ \A r \in (Len(CrowdList) + 1)..Len(reqs) :
           reqs[r].user = 1 /\ reqs[r].pc = "done" /\ reqs[r].channel = ChannelList[1]
    /\ user_in_flight_gen_count[1] = 0
    /\ active_channels = [ch \in Channels |-> IF ch = CrowdChannel THEN Len(CrowdList) ELSE 0]
    /\ work_queue # <<>>

\* ========================================================================
\* Part VIII: the work item of a request
\* ========================================================================
\* _process_request from validate_params to the ack, for the sizes and the
\* mode of the item.  The cog builds the item with WorkItem of
\* modules/work_item.py, which has set_highres only; the item is taken here
\* with the fields and methods of SDWorkItem (modules/sd_work_item.py), the
\* class the controller and the worker read it as.
\* Scales, resize_scale included, are held in halves as in Part V.

\* the image download_image returned: none asked for, None, or an image of
\* a size
NoImage == [kind |-> "none", w |-> 0, h |-> 0]
BadImage == [kind |-> "bad", w |-> 0, h |-> 0]
Picture(w, h) == [kind |-> "ok", w |-> w, h |-> h]

\* int(ratio * dim) with ratio = autosize_max / max_dim; the sizes of the
\* requests below are powers of two, for which the float product is exact
AutosizeDim(autosize_max, dim, max_dim) == (autosize_max * dim) \div max_dim

\* int(values[WIDTH] * values[RESIZE_SCALE])
ResizedDim(dim, resize_scale) == (dim * resize_scale) \div 2

\* lines 182-193: values[WIDTH], values[HEIGHT] after autosize and
\* resize_scale, which run for a request with an image only
Sized(r) ==
    IF r.image.kind # "ok" THEN <<r.width, r.height>>
    ELSE LET a == IF r.autosize
                  THEN <<AutosizeDim(r.autosize_maxsize, r.image.w, Max2(r.image.w, r.image.h)),
                         AutosizeDim(r.autosize_maxsize, r.image.h, Max2(r.image.w, r.image.h))>>
                  ELSE <<r.width, r.height>>
         IN  IF r.resize_scale # NoScale
             THEN <<ResizedDim(a[1], r.resize_scale), ResizedDim(a[2], r.resize_scale)>>
             ELSE a

\* WorkItem(...): scale = 1, no image
NewWorkItem(width, height, batch_size) ==
    [width |-> width, height |-> height, batch_size |-> batch_size,
     scale |-> 2, upscaler |-> NoUpscaler, image_b64 |-> FALSE]

\* set_image and set_highres
set_image(item) == [item EXCEPT !.image_b64 = TRUE]
set_highres(item, scale, upscaler) == [item EXCEPT !.scale = scale, !.upscaler = upscaler]

\* lines 228-234: if image_b64 is not None ... elif values[SCALE] > 1 ...
Stamped_Both(item, r) ==
    LET i == IF r.image.kind = "ok" THEN set_image(item) ELSE item
    IN  IF r.scale > 2 THEN set_highres(i, r.scale, r.upscaler) ELSE i
Stamped(item, r) ==
    IF r.image.kind = "ok" THEN set_image(item)
    ELSE IF r.scale > 2 THEN set_highres(item, r.scale, r.upscaler)
    ELSE item

\* make_message_str, its last lines: the line after the four mandatory ones
AckExtra(r) ==
    IF r.image.kind # "none" THEN <<"img2img">>
    ELSE IF r.scale # NoScale /\ r.scale > 2 THEN <<"upscaling">>
    ELSE <<>>

\* _process_work_item: the request the worker makes for the item
Endpoint(item) == IF ~item.image_b64 THEN "txt2img" ELSE "img2img"

\* what becomes of request r: answered with a message, or an item pushed
\* and an ack sent
Shipped(r) ==
    LET wh == Sized(r)
        b == ClampedBatch([batch_size |-> r.batch_size, width |-> wh[1], height |-> wh[2],
                           scale |-> r.scale, upscaler |-> r.upscaler])
    IN  IF r.image.kind = "bad" THEN [pushed |-> FALSE, why |-> "bad_image"]
        ELSE IF b = 0 THEN [pushed |-> FALSE, why |-> "out_of_memory"]
        ELSE [pushed |-> TRUE, item |-> Stamped(NewWorkItem(wh[1], wh[2], b), r),
              ack |-> AckExtra(r), sent |-> "none"]

\* the requests.  txt2img has no image and a scale; img2img has an image
\* and no scale (SCALE is no parameter of the command, validate_params
\* leaves None); again has either, from the message and the overrides.
\* autosize, autosize_maxsize and resize_scale are read only with an image.
Pictures == {Picture(512, 512), Picture(2048, 512), Picture(512, 2048)}
ShipSides == {256, 1024}
ShipBatches == {NoBatch, 1}
ResizeScales == {1, 2, 4}
MaxSizes == {256, 1024}

ShipRequests ==
    [command : {"txt2img"}, image : {NoImage}, width : ShipSides, height : ShipSides,
     scale : {2, 3, 4}, upscaler : {"Latent"}, batch_size : ShipBatches,
     autosize : {FALSE}, autosize_maxsize : {256}, resize_scale : {NoScale}]
    \cup
    [command : {"img2img"}, image : Pictures \cup {BadImage}, width : ShipSides,
     height : ShipSides, scale : {NoScale}, upscaler : {NoUpscaler}, batch_size : ShipBatches,
     autosize : BOOLEAN, autosize_maxsize : MaxSizes, resize_scale : ResizeScales]
    \cup
    [command : {"again"}, image : Pictures \cup {NoImage}, width : ShipSides,
     height : ShipSides, scale : {2, 4}, upscaler : {"Latent"}, batch_size : ShipBatches,
     autosize : BOOLEAN, autosize_maxsize : MaxSizes, resize_scale : ResizeScales]

InitShip ==
    /\ ControlIdle
    /\ AdmissionIdle
    /\ CodecIdle
    /\ ConfigIdle
    /\ PrefsIdle
    /\ breq \in ShipRequests
    /\ bout = <<>>

\* _process_request on the request
Ship ==
    /\ bout = <<>>
    /\ bout' = Shipped(breq)
    /\ UNCHANGED <<breq, cfgvars, prefvars, clock, work_queue, result_queue, pipevars, admvars, codvars>>

\* a worker processes the item that was pushed
ShipProcess ==
    /\ bout # <<>>
    /\ bout.pushed
    /\ bout.sent = "none"
    /\ bout' = [bout EXCEPT !.sent = Endpoint(bout.item)]
    /\ UNCHANGED <<breq, cfgvars, prefvars, clock, work_queue, result_queue, pipevars, admvars, codvars>>

NextShip == Ship \/ ShipProcess

SpecShip == InitShip /\ [][NextShip]_vars

TakeQueue_Bookkept(w) == IF spc = "att_worker" /\ sl.w = w THEN sl.m ELSE wq[w]
TakeQueue(w) == wq[w]

\* _pull_work_item(): the loop condition and the first critical section.
\* With the stop flag set the function returns None; with no queue the round
\* sleeps and changes nothing; else the round goes on.
PullSee(w) ==
    /\ wpc[w] = "pull"
    /\ IF wstop[w]
       THEN /\ witem' = [witem EXCEPT ![w] = NoneItem]
            /\ wpc' = [wpc EXCEPT ![w] = "process"]
       ELSE /\ wq[w] # NoModel
            /\ wpc' = [wpc EXCEPT ![w] = "take"]
            /\ UNCHANGED witem
    /\ UNCHANGED <<rest, clock, nsub, stop, work_queue, result_queue, qlist, qworkers, spc, sl,
                   backend, wopt, wq, wstop>>

\* _pull_work_item(): the second critical section.  An item is returned; a
\* round that finds no queue or an empty queue sleeps and starts again.
PullTake(w) ==
    /\ wpc[w] = "take"
    /\ LET q == TakeQueue(w)
       IN  IF q # NoModel /\ GetResult(qlist[q]) # NoneItem
           THEN /\ witem' = [witem EXCEPT ![w] = GetResult(qlist[q])]
                /\ qlist' = [qlist EXCEPT ![q] = ListAfterGet(qlist[q])]
                /\ qhist' = [qhist EXCEPT ![q].got = Noted(@, GetResult(qlist[q]).id)]
                /\ wpc' = [wpc EXCEPT ![w] = "process"]
           ELSE /\ wpc' = [wpc EXCEPT ![w] = "pull"]
                /\ UNCHANGED <<witem, qlist, qhist>>
    /\ UNCHANGED <<others, attach_count, clock, nsub, stop, work_queue, result_queue, qworkers, spc, sl,
                   backend, wopt, wq, wstop>>

\* the scheduler at work on a backlog while every worker runs its loop
NextRebind ==
    \/ SchedRunning
    \/ \E w \in Workers : PullSee(w)
    \/ \E w \in Workers : PullTake(w)
    \/ \E w \in Workers, outcome \in BacklogOutcomes : WorkerProcess(w, outcome)

SpecRebind == InitBacklog /\ [][NextRebind]_vars

\* C31: once attach_to_queue has returned, the worker's queue is the one
\* that was passed; and every item a worker pops is the head of the queue
\* the worker is attached to at the moment of the pop, and is taken off that
\* queue and no other.  Together: after attach_to_queue(q2) has returned,
\* the worker does not pop from its previous queue again.
C31_PopsAttached ==
    /\ [](spc = "att_append" => wq[sl.w] = sl.m)
    /\ [][\A w \in Workers :
            (wpc[w] = "take" /\ wpc'[w] = "process")
            => /\ wq[w] # NoModel
               /\ qlist[wq[w]] # <<>>
               /\ witem'[w] = Head(qlist[wq[w]])
               /\ qlist' = [qlist EXCEPT ![wq[w]] = Tail(qlist[wq[w]])]]_vars

\* worker 1, which starts on the empty queue of m1, has seen a queue in one
\* critical section, has been rebound by the scheduler before the next one,
\* and holds an item of the queue it is attached to now
C31_Witness ==
    /\ wpc[1] = "process"
    /\ witem[1] # NoneItem
    /\ wq[1] # "m1"
    /\ witem[1].model = wq[1]
    /\ qhist[wq[1]].got # <<>>

\* ------------------------------------------------------------------------
\* Part X: the cap _process_request applies
\* ------------------------------------------------------------------------
\* in-flight counts a user can have when a request arrives
HeldCounts == {0, 1, 6, 7}

\* _process_request: self.bot.sd_config.in_flight_gen_cap(ctx.author.id,
\* ctx.channel_id).  The call passes two arguments; category_id and guild_id
\* keep their default None.
AdmissionCap(c, user, channel_id) == in_flight_gen_cap(c, user, channel_id, NoId, NoId)

\* _process_request: the rate limit.  The context of the command has a
\* channel, and the id of its category and of its guild if it has one; held
\* is the user's in-flight count.  The request is turned away when the count
\* has reached the cap.
CheckInFlight(user, channel_id, category_id, guild_id, held) ==
    /\ capq' = [user |-> user, channel_id |-> channel_id,
                category_id |-> category_id, guild_id |-> guild_id, held |-> held,
                rejected |-> Whole(held).n >= AdmissionCap(sd_config, user, channel_id).n]
    /\ cap' = AdmissionCap(sd_config, user, channel_id)
    /\ UNCHANGED <<sd_config, batvars, prefvars, clock, work_queue, result_queue, pipevars, admvars, codvars>>

NextCapAdmit ==
    \E user \in CapUsers : \E channel_id \in CapChannels :
        \E category_id \in CapCategories \cup {NoId} : \E guild_id \in CapGuilds \cup {NoId} :
            \E held \in HeldCounts :
                CheckInFlight(user, channel_id, category_id, guild_id, held)

SpecCapAdmit == InitConfig /\ [][NextCapAdmit]_vars

\* the cap an entry of that kind defines, None if there is no such entry or
\* it defines none
DefinedCap(c, kind, id) ==
    IF id = NoId THEN None
    ELSE check_dict_try_get(Key("in_flight_cap"), IntText(id), c[kind])

\* C32 as stated: for a user with no cap of their own in a channel with no
\* cap, the cap the in-flight count is compared against is the cap of the
\* channel's category if it defines one, else the cap of the guild if it
\* defines one, else the default; and the request is turned away exactly
\* when the count has reached that cap.
C32_AsStated ==
    ( /\ capq # <<>>
      /\ check_dict_try_get(IntText(capq.user), "user_in_flight_caps", sd_config) = None
      /\ DefinedCap(sd_config, "channels", capq.channel_id) = None )
    => LET byCategory == DefinedCap(sd_config, "categories", capq.category_id)
           byGuild == DefinedCap(sd_config, "guilds", capq.guild_id)
           default == in_flight_gen_cap(sd_config, capq.user, NoId, NoId, NoId)
           due == IF byCategory # None THEN byCategory
                  ELSE IF byGuild # None THEN byGuild ELSE default
       IN  /\ cap = due
           /\ capq.rejected <=> Whole(capq.held).n >= due.n

\* ------------------------------------------------------------------------
\* Part XI: the scheduler under a load that does not end
\* ------------------------------------------------------------------------
\* Both backends came up with the checkpoint of m1 and both workers are
\* bound to its queue.  Requests for m1 keep arriving; one request for m3
\* waits in its queue, which has no worker.  Items arrive for ever, so time
\* is kept relative: the clock stays at LoadClock and a step of time moves
\* every creation time back by TickStep.  A creation time stops at 0, which
\* is LoadClock seconds ago.  Only the item of a quiet queue is let grow that
\* old: time is held while another item would reach that age, so the order
\* of the ages in the model is the order of the real ages.  No history of
\* the queues is kept and the fan-out task takes the results as they come.
LoadClock == 3 * TickStep
LoadDepth == 2
LoadModels == {"m1"}
QuietModels == {"m3"}

\* the items of the system outside the result queue
RECURSIVE Flat(_, _)
Flat(q, i) == IF i = 0 THEN <<>> ELSE Flat(q, i - 1) \o q[ModelList[i]]
Waiting ==
    (Range(work_queue) \cup Range(Flat(qlist, NumModels)) \cup {witem[w] : w \in Workers})
        \ {NoneItem}

Aged(it) ==
    IF it = NoneItem THEN it
    ELSE [it EXCEPT !.ct = IF it.ct >= TickStep THEN it.ct - TickStep ELSE 0]
AgedList(list) == [i \in 1..Len(list) |-> Aged(list[i])]

InitLoad ==
    /\ CodecIdle
    /\ AdmissionIdle
    /\ AuxIdle
    /\ clock = LoadClock
    /\ nsub = NumModels
    /\ stop = FALSE
    /\ work_queue = <<>>
    /\ result_queue = <<>>
    /\ qlist = [m \in Models |->
                  IF m \in LoadModels
                  THEN <<BacklogItem(m, LoadClock - 2 * TickStep), BacklogItem(m, LoadClock - TickStep)>>
                  ELSE IF m \in QuietModels THEN <<BacklogItem(m, 0)>> ELSE <<>>]
    /\ wq = [w \in Workers |-> ModelList[1]]
    /\ wopt = [w \in Workers |-> ModelList[1]]
    /\ backend = [w \in Workers |-> ModelList[1]]
    /\ qworkers = [m \in Models |-> IF m = ModelList[1] THEN WorkerList ELSE <<>>]
    /\ spc = "count"
    /\ sl = [SL0 EXCEPT !.idx = 1]
    /\ attach_count = NumWorkers
    /\ locks = Unlocked
    /\ tally = NoTally
    /\ qhist = [m \in Models |-> [put |-> NoHistory, got |-> NoHistory]]
    /\ wstop = [w \in Workers |-> FALSE]
    /\ wpc = [w \in Workers |-> "pull"]
    /\ witem = [w \in Workers |-> NoneItem]

\* the chat side puts one more item of model m on the submission queue.
\* An item arrives while a scheduling pass runs, so every drain loop finds
\* the submission queue empty after at most one item and the next pass
\* begins.
Arrive(m) ==
    /\ sl.inpass
    /\ work_queue = <<>>
    /\ Len(qlist[m]) < LoadDepth
    /\ work_queue' = Append(work_queue, BacklogItem(m, clock))
    /\ UNCHANGED <<rest, clock, nsub, stop, result_queue, qlist, qworkers, spc, sl,
                   backend, wopt, wq, wstop, wpc, witem>>

\* TickStep seconds pass between two iterations of run()
Age ==
    /\ spc = "loop"
    /\ \A it \in Waiting : it.model \notin QuietModels => it.ct >= 2 * TickStep
    /\ work_queue' = AgedList(work_queue)
    /\ result_queue' = AgedList(result_queue)
    /\ qlist' = [m \in Models |-> AgedList(qlist[m])]
    /\ witem' = [w \in Workers |-> Aged(witem[w])]
    /\ UNCHANGED <<rest, clock, nsub, stop, qworkers, spc, sl, backend, wopt, wq, wstop, wpc>>

\* _send_responses: self.bot.sd_result_queue.get(), as far as the
\* controller's side sees it
TakeResult ==
    /\ result_queue # <<>>
    /\ result_queue' = Tail(result_queue)
    /\ UNCHANGED <<rest, clock, nsub, stop, work_queue, qlist, qworkers, spc, sl,
                   backend, wopt, wq, wstop, wpc, witem>>

\* a worker at work; it pushes its result once the last one was taken
WorkerLoaded(w) ==
    \/ WorkerPull(w)
    \/ result_queue = <<>> /\ WorkerProcess(w, "ok")

SchedLoaded == SchedRunning \/ SchedPut

NextLoad ==
    \/ \E m \in LoadModels : Arrive(m)
    \/ Age
    \/ TakeResult
    \/ SchedLoaded
    \/ \E w \in Workers : WorkerLoaded(w)

\* the controller thread, the worker threads and the fan-out task keep
\* taking steps.  A worker's push waits for the result queue to be empty in
\* the model only, so the fairness of a worker is strong: a worker whose
\* step is possible again and again takes it.
SpecLoad ==
    /\ InitLoad
    /\ [][NextLoad]_vars
    /\ WF_vars(SchedLoaded)
    /\ WF_vars(TakeResult)
    /\ \A w \in Workers : SF_vars(WorkerLoaded(w))

\* C33 as stated: an item that waits in a queue with no worker is
\* eventually dequeued, also while items keep arriving for the other queues
\* and the heads of the queues the workers are bound to stay late.
C33_AsStated ==
    \A m \in QuietModels :
        (qlist[m] # <<>> /\ qworkers[m] = <<>>) ~> (qlist[m] = <<>>)

\* ------------------------------------------------------------------------
\* Part XII: the locks
\* ------------------------------------------------------------------------
\* Every "with lock:" is two steps here, the entry, which waits until the
\* lock is free (threading.Lock is not reentrant), and the exit.  The
\* worker threads run _pull_work_item.  The controller thread makes the
\* calls of run() and _schedule_queues that take a lock, in any order and
\* for any queue and worker: size(), oldest_work_item and put() take the
\* lock of a queue, get_queue() and attach_to_queue() the lock of a worker.

\* "with lock:", entry and exit
Acquired(l, kind, k, t) == [l EXCEPT ![kind][k] = t]
Released_Keep(l, kind, k) == l
Released(l, kind, k) == [l EXCEPT ![kind][k] = NoWorker]

LockModels == {"m1", "m2"}
QueueCalls == {"size", "oldest_work_item", "put"}
WorkerCalls == {"get_queue", "attach_to_queue"}

InitLocks ==
    /\ CodecIdle
    /\ AdmissionIdle
    /\ AuxIdle
    /\ clock = BacklogClock
    /\ nsub = NumModels
    /\ stop = FALSE
    /\ work_queue = <<>>
    /\ result_queue = <<>>
    /\ qlist = [m \in Models |-> IF m \in LockModels THEN <<BacklogItem(m, 0)>> ELSE <<>>]
    /\ wq = [w \in Workers |-> ModelList[w]]
    /\ wopt = [w \in Workers |-> ModelList[w]]
    /\ backend = [w \in Workers |-> ModelList[w]]
    /\ qworkers = [m \in Models |-> SelectSeq(WorkerList, LAMBDA w : ModelList[w] = m)]
    /\ spc = "lk_idle"
    /\ sl = SL0
    /\ attach_count = NumWorkers
    /\ locks = Unlocked
    /\ tally = NoTally
    /\ qhist = [m \in Models |-> [put |-> NoHistory, got |-> NoHistory]]
    /\ wstop = [w \in Workers |-> FALSE]
    /\ wpc = [w \in Workers |-> "pull"]
    /\ witem = [w \in Workers |-> NoneItem]

\* what a step of a worker in _pull_work_item leaves alone
PullRest == <<admvars, codvars, auxvars, tally, attach_count, clock, nsub, stop, work_queue,
              result_queue, qworkers, spc, sl, backend, wopt, wq, wstop>>

\* _pull_work_item, first "with self._lock:": entry
SeeEnter(w) ==
    /\ wpc[w] = "pull"
    /\ locks.w[w] = NoWorker
    /\ locks' = Acquired(locks, "w", w, w)
    /\ wpc' = [wpc EXCEPT ![w] = "see"]
    /\ UNCHANGED <<PullRest, witem, qlist, qhist>>

\* no_work_queue = self._work_queue is None, and the exit; with no queue the
\* round sleeps and starts again
SeeExit(w) ==
    /\ wpc[w] = "see"
    /\ locks' = Released(locks, "w", w)
    /\ wpc' = [wpc EXCEPT ![w] = IF wq[w] = NoModel THEN "pull" ELSE "again"]
    /\ UNCHANGED <<PullRest, witem, qlist, qhist>>

\* second "with self._lock:": entry
TakeEnter(w) ==
    /\ wpc[w] = "again"
    /\ locks.w[w] = NoWorker
    /\ locks' = Acquired(locks, "w", w, w)
    /\ wpc' = [wpc EXCEPT ![w] = "take"]
    /\ UNCHANGED <<PullRest, witem, qlist, qhist>>

\* if self._work_queue is not None: self._work_queue.get(), which enters
\* "with self.lock:" of the queue; with no queue the worker's lock is left
GetEnter(w) ==
    /\ wpc[w] = "take"
    /\ IF wq[w] = NoModel
       THEN /\ locks' = Released(locks, "w", w)
            /\ wpc' = [wpc EXCEPT ![w] = "pull"]
       ELSE /\ locks.q[wq[w]] = NoWorker
            /\ locks' = Acquired(locks, "q", wq[w], w)
            /\ wpc' = [wpc EXCEPT ![w] = "get"]
    /\ UNCHANGED <<PullRest, witem, qlist, qhist>>

\* LockedList.get() pops the head and leaves the lock of the queue, then
\* the worker leaves its own; None sends the worker to sleep
GetExit(w) ==
    /\ wpc[w] = "get"
    /\ locks' = Released(Released(locks, "q", wq[w]), "w", w)
    /\ witem' = [witem EXCEPT ![w] = GetResult(qlist[wq[w]])]
    /\ qlist' = [qlist EXCEPT ![wq[w]] = ListAfterGet(qlist[wq[w]])]
    /\ wpc' = [wpc EXCEPT ![w] = IF GetResult(qlist[wq[w]]) = NoneItem THEN "pull" ELSE "process"]
    /\ UNCHANGED <<PullRest, qhist>>

\* what a step of the controller thread between two calls leaves alone
CallRest == <<admvars, codvars, auxvars, tally, attach_count, qhist, clock, nsub, stop, work_queue,
              result_queue, qworkers, backend, wopt, wstop, wpc, witem>>

\* the controller thread is about to call a method of a queue
CallQueue(call, m) ==
    /\ spc = "lk_idle"
    /\ call = "put" => qlist[m] = <<>>
    /\ spc' = "lk_want_q"
    /\ sl' = [sl EXCEPT !.m = m, !.ret = call]
    /\ UNCHANGED <<CallRest, locks, qlist, wq>>

\* "with self.lock:" of the queue (size, put) or "with work_queue.lock:"
\* (oldest_work_item): entry
QueueEnter ==
    /\ spc = "lk_want_q"
    /\ locks.q[sl.m] = NoWorker
    /\ locks' = Acquired(locks, "q", sl.m, Controller)
    /\ spc' = "lk_in_q"
    /\ UNCHANGED <<CallRest, sl, qlist, wq>>

\* the body of the call and the exit
QueueExit ==
    /\ spc = "lk_in_q"
    /\ locks' = Released(locks, "q", sl.m)
    /\ qlist' = IF sl.ret = "put"
                THEN [qlist EXCEPT ![sl.m] = ListAfterPut(qlist[sl.m], BacklogItem(sl.m, clock))]
                ELSE qlist
    /\ spc' = "lk_idle"
    /\ sl' = SL0
    /\ UNCHANGED <<CallRest, wq>>

\* the controller thread is about to call a method of a worker
CallWorker(call, w, m) ==
    /\ spc = "lk_idle"
    /\ spc' = "lk_want_w"
    /\ sl' = [sl EXCEPT !.w = w, !.m = m, !.ret = call]
    /\ UNCHANGED <<CallRest, locks, qlist, wq>>

\* "with self._lock:" of get_queue and attach_to_queue: entry
WorkerEnter ==
    /\ spc = "lk_want_w"
    /\ locks.w[sl.w] = NoWorker
    /\ locks' = Acquired(locks, "w", sl.w, Controller)
    /\ spc' = "lk_in_w"
    /\ UNCHANGED <<CallRest, sl, qlist, wq>>

\* the body of the call and the exit
WorkerExit ==
    /\ spc = "lk_in_w"
    /\ locks' = Released(locks, "w", sl.w)
    /\ wq' = IF sl.ret = "attach_to_queue" THEN [wq EXCEPT ![sl.w] = sl.m] ELSE wq
    /\ spc' = "lk_idle"
    /\ sl' = SL0
    /\ UNCHANGED <<CallRest, qlist>>

NextLocks ==
    \/ \E w \in Workers : SeeEnter(w)
    \/ \E w \in Workers : SeeExit(w)
    \/ \E w \in Workers : TakeEnter(w)
    \/ \E w \in Workers : GetEnter(w)
    \/ \E w \in Workers : GetExit(w)
    \/ \E w \in Workers : result_queue = <<>> /\ WorkerProcess(w, "ok")
    \/ TakeResult
    \/ \E call \in QueueCalls, m \in LockModels : CallQueue(call, m)
    \/ QueueEnter
    \/ QueueExit
    \/ \E call \in WorkerCalls, w \in Workers, m \in LockModels : CallWorker(call, w, m)
    \/ WorkerEnter
    \/ WorkerExit

SpecLocks == InitLocks /\ [][NextLocks]_vars

Threads == Workers \cup {Controller}

\* the lock thread t is waiting to enter, if any
Want(t) ==
    IF t = Controller
    THEN CASE spc = "lk_want_q" -> [kind |-> "q", w |-> NoWorker, m |-> sl.m]
           [] spc = "lk_want_w" -> [kind |-> "w", w |-> sl.w, m |-> NoModel]
           [] OTHER -> [kind |-> "none", w |-> NoWorker, m |-> NoModel]
    ELSE CASE wpc[t] \in {"pull", "again"} -> [kind |-> "w", w |-> t, m |-> NoModel]
           [] wpc[t] = "take" /\ wq[t] # NoModel -> [kind |-> "q", w |-> NoWorker, m |-> wq[t]]
           [] OTHER -> [kind |-> "none", w |-> NoWorker, m |-> NoModel]

\* the thread that holds the lock t is waiting for, NoWorker if there is
\* none; a thread is stuck while there is one
Blocker(t) ==
    CASE Want(t).kind = "w" -> locks.w[Want(t).w]
      [] Want(t).kind = "q" -> locks.q[Want(t).m]
      [] OTHER -> NoWorker
Stuck(t) == Blocker(t) # NoWorker

WorkerLocksOf(t) == {w \in Workers : locks.w[w] = t}
QueueLocksOf(t) == {m \in Models : locks.q[m] = t}

\* C34: the lock of a worker is asked for only by a thread that holds no
\* lock, and the lock of a queue only by a thread that holds no lock of a
\* queue (the order is worker, then queue); the controller thread never
\* holds the lock of a worker and the lock of a queue together; and no
\* thread waits in a cycle: a thread that is kept waiting waits for a
\* thread other than itself that is not kept waiting, or for one that in
\* turn waits for a third thread that is not kept waiting.
C34_NoDeadlock ==
    /\ \A t \in Threads :
           /\ Want(t).kind = "w" => WorkerLocksOf(t) = {} /\ QueueLocksOf(t) = {}
           /\ Want(t).kind = "q" => QueueLocksOf(t) = {}
    /\ WorkerLocksOf(Controller) = {} \/ QueueLocksOf(Controller) = {}
    /\ \A t \in Threads :
           Stuck(t) =>
               /\ Blocker(t) # t
               /\ \/ ~Stuck(Blocker(t))
                  \/ /\ Blocker(Blocker(t)) \notin {t, Blocker(t)}
                     /\ ~Stuck(Blocker(Blocker(t)))

\* the controller thread waits for the lock of worker 1, which worker 1
\* holds while it waits for the lock of a queue, which worker 2 holds
C34_Witness ==
    /\ Stuck(Controller)
    /\ Blocker(Controller) = 1
    /\ wpc[1] = "take"
    /\ Stuck(1)
    /\ Blocker(1) = 2
    /\ wpc[2] = "get"

\* ------------------------------------------------------------------------
\* Part XIII: model switches and attachments
\* ------------------------------------------------------------------------
\* The controller at the head of its drain loop after a slow start (see
\* InitBacklog), with a tally kept per worker.  Every worker has been
\* attached once: a worker whose backend reported a checkpoint that is no
\* supported model ("other") is on the queue of the first model.  The queue
\* of m2 holds two items.
SwitchAges ==
    { c \in [Models -> BacklogTimes \cup {-1}] :
        /\ c["m1"] \in {-1, 0}
        /\ c["m2"] \in {0, 2 * TickStep}
        /\ c["m3"] \in {-1, 0}
        /\ c["m4"] = -1 }

SwitchCheckpoints(m) == IF m = ModelList[1] THEN {m, "other"} ELSE {m}

InitSwitch ==
    /\ CodecIdle
    /\ AdmissionIdle
    /\ AuxIdle
    /\ clock = BacklogClock
    /\ nsub = 2 * NumModels
    /\ stop = FALSE
    /\ work_queue = <<>>
    /\ result_queue = <<>>
    /\ \E c \in SwitchAges :
           qlist = [m \in Models |->
                       IF c[m] = -1 THEN <<>>
                       ELSE IF m = "m2"
                       THEN <<BacklogItem(m, c[m]),
                              [BacklogItem(m, BacklogClock) EXCEPT !.id = NumModels + ModelIndex(m)]>>
                       ELSE <<BacklogItem(m, c[m])>>]
    /\ \E a \in BacklogBindings :
           /\ wq = a
           /\ wopt \in {o \in [Workers -> Checkpoints] : \A w \in Workers : o[w] \in SwitchCheckpoints(a[w])}
           /\ backend = wopt
           /\ qworkers = [m \in Models |-> SelectSeq(WorkerList, LAMBDA w : a[w] = m)]
    /\ spc = "count"
    /\ sl = [SL0 EXCEPT !.idx = 1]
    /\ attach_count = NumWorkers
    /\ locks = Unlocked
    /\ tally = [w \in Workers |-> [attached |-> 1, switched |-> 0]]
    /\ qhist = [m \in Models |-> [put |-> Ids(qlist[m]), got |-> <<>>]]
    /\ wstop = [w \in Workers |-> FALSE]
    /\ wpc = [w \in Workers |-> "pull"]
    /\ witem = [w \in Workers |-> NoneItem]

SpecSwitch == InitSwitch /\ [][NextBacklog]_vars

\* C35: no worker has switched models more often than it has been attached
\* to a queue, the initial attachment included.
C35_SwitchPerAttach ==
    \A w \in Workers : tally[w].switched <= tally[w].attached

\* a worker was rebound while it held an item, and has switched as often as
\* it was attached: once for the item of its first queue (its backend came
\* up with another checkpoint) and once for an item of its second queue
C35_Witness ==
    \E w \in Workers :
        /\ tally[w].attached = 2
        /\ tally[w].switched = 2
        /\ sl.inpass
        /\ \E i \in 1..Len(sl.moved) : sl.moved[i] = w /\ sl.bound0[w] = "m1"
        /\ \E i, j \in 1..Len(result_queue) :
               /\ i < j
               /\ result_queue[i].model = "m1"
               /\ result_queue[j].model # "m1"

\* ------------------------------------------------------------------------
\* Part XIV: the handles of the requests in flight
\* ------------------------------------------------------------------------
\* the requests whose item was pushed and whose result the fan-out task has
\* not taken yet
InFlight == {r \in 1..Len(reqs) : reqs[r].shipped /\ ~reqs[r].taken}

\* C36 as stated: no two requests in flight share a context_handle; and
\* when the fan-out task is about to take a result, in_flight_commands has
\* an entry under the handle of the result, and the entry is the context of
\* the request the result belongs to.
C36_AsStated ==
    /\ \A r1, r2 \in InFlight : r1 # r2 => reqs[r1].handle # reqs[r2].handle
    /\ (fan.pc = "run" /\ result_queue # <<>>) =>
           /\ Head(result_queue).handle \in DOMAIN in_flight_commands
           /\ in_flight_commands[Head(result_queue).handle] = Head(result_queue).id

\* ------------------------------------------------------------------------
\* Part XV: admissions that overlap at a submission queue of QUEUE_MAX_SIZE
\* ------------------------------------------------------------------------
\* The state a crowd of QUEUE_MAX_SIZE users leaves behind, one admitted
\* request each, while the controller has not taken any of their items
\* (see Part VII).  Two more users then send commands, with and without an
\* image.
FillList == SubSeq(CrowdList, 1, QUEUE_MAX_SIZE)
FillUsers == {FillList[i] : i \in 1..Len(FillList)}

InitFill ==
    /\ CodecIdle
    /\ AuxIdle
    /\ clock = 0
    /\ nsub = 0
    /\ stop = FALSE
    /\ work_queue = [i \in 1..Len(FillList) |-> AckItem(i, CommandHandle(FillList[i], 0))]
    /\ result_queue = <<>>
    /\ qlist = [m \in Models |-> <<>>]
    /\ qworkers = [m \in Models |-> <<>>]
    /\ spc = "start"
    /\ sl = SL0
    /\ attach_count = 0
    /\ locks = Unlocked
    /\ tally = NoTally
    /\ qhist = [m \in Models |-> [put |-> <<>>, got |-> <<>>]]
    /\ backend = [w \in Workers |-> "down"]
    /\ wopt = [w \in Workers |-> "none"]
    /\ wq = [w \in Workers |-> NoModel]
    /\ wstop = [w \in Workers |-> FALSE]
    /\ wpc = [w \in Workers |-> "unstarted"]
    /\ witem = [w \in Workers |-> NoneItem]
    /\ user_in_flight_gen_count = [u \in Users \cup FillUsers |-> IF u \in FillUsers THEN 1 ELSE 0]
    /\ active_channels = [ch \in Channels |-> IF ch = CrowdChannel THEN Len(FillList) ELSE 0]
    /\ typers = [ch \in Channels |-> IF ch = CrowdChannel THEN 1 ELSE 0]
    /\ in_flight_commands =
           [h \in {CommandHandle(FillList[i], 0) : i \in 1..Len(FillList)} |->
               CHOOSE i \in 1..Len(FillList) : h = CommandHandle(FillList[i], 0)]
    /\ reqs = [i \in 1..Len(FillList) |-> CrowdRequest(i)]
    /\ fan = [pc |-> "run", work_ctx |-> NoRequest]

NextFill ==
    \/ \E u \in Users : \E ch \in RejectionChannels : \E kind \in RequestKinds :
           ProcessRequest(u, ch, kind, 1, Len(FillList) + MaxNew)
    \/ \E r \in 1..(Len(FillList) + MaxNew) : \E image_ok \in BOOLEAN :
           AfterDownload(r, image_ok, 1)
    \/ \E r \in 1..(Len(FillList) + MaxNew) : AfterReject(r)
    \/ \E r \in 1..(Len(FillList) + MaxNew) : AfterAck(r)

SpecFill == InitFill /\ [][NextFill]_vars

\* C37 as stated: the submission queue never holds more than
\* QUEUE_MAX_SIZE + 1 items.
C37_AsStated == Len(work_queue) <= QUEUE_MAX_SIZE + 1

\* ------------------------------------------------------------------------
\* Part XVI: model names of which one contains another
\* ------------------------------------------------------------------------
\* The controller and its workers from the start (Part I), with backends
\* that come up with the checkpoint of m2 or with the checkpoint LongName,
\* whose name contains the name of m1.
NameCheckpoints == {"m2", LongName}

NextNames ==
    \/ \E m \in StartupModels : Submit(m, MaxItems)
    \/ \E w \in Workers : \E c \in NameCheckpoints : BackendUp(w, c)
    \/ SchedStep
    \/ \E w \in Workers : WorkerStep(w, AllOutcomes)

SpecNames == Init /\ [][NextNames]_vars

\* C38 as stated: when a worker has sent the generation request for an item
\* (its switch, if it made one, was not refused), the checkpoint loaded on
\* its backend is the item's model; and at the initial attachment a friendly
\* name that get_model() reports as a supported model is the checkpoint the
\* backend has loaded.
C38_AsStated ==
    /\ [][\A w \in Workers :
            ( /\ wpc[w] = "process" /\ wpc'[w] # "process"
              /\ witem[w] # NoneItem
              /\ Pushed(w).err # "switch" )
            => backend'[w] = witem[w].model]_vars
    /\ []((spc = "att_remove" /\ sl.ret = "init" /\ FriendlyName(wopt[sl.w]) \in Models)
            => backend[sl.w] = FriendlyName(wopt[sl.w]))

\* ------------------------------------------------------------------------
\* Part XVII: start-up with backends that may stay down
\* ------------------------------------------------------------------------
\* The controller thread and the worker threads keep taking steps and
\* main() never sets the stop flag, as in LiveSpec; a backend comes up or
\* stays down as it pleases, so no fairness is put on BackendUp.
SpecReady ==
    /\ Init
    /\ [][NextLive]_vars
    /\ WF_vars(SchedStep)
    /\ \A w \in Workers : WF_vars(WorkerStep(w, AllOutcomes))

\* run() has left its attachment loop (lines 184-192) and is in, or has
\* been in, the loop that ingests and schedules
Scheduling == spc \notin {"start", "init"} /\ sl.ret # "init"

\* C39 as stated: every worker whose backend has become ready is eventually
\* attached to a queue, and the controller eventually ingests and schedules,
\* whether or not the other backends ever come up.
C39_AsStated ==
    \A w \in Workers :
        /\ (backend[w] # "down") ~> (wq[w] # NoModel)
        /\ (backend[w] # "down") ~> Scheduling

\* ------------------------------------------------------------------------
\* Part XVIII: late queues of different lateness
\* ------------------------------------------------------------------------
\* The controller at the head of its drain loop, as in InitPool, with the
\* first worker on a queue that is empty, a second old or late, the second
\* worker on a queue with an item just created, and the other two queues
\* late by different amounts or empty.
Later1 == <<1>>

OrderLoads ==
    { c \in [Models -> {<<>>, Late1, Later1, Old1, Fresh1}] :
        /\ c[ModelList[1]] \in {<<>>, Old1, Late1}
        /\ c[ModelList[2]] = Fresh1
        /\ c[ModelList[3]] \in {Late1, Later1}
        /\ c[ModelList[4]] \in {<<>>, Late1, Later1} }

InitOrder ==
    /\ CodecIdle
    /\ AdmissionIdle
    /\ AuxIdle
    /\ clock = PressureClock
    /\ stop = FALSE
    /\ work_queue = <<>>
    /\ result_queue = <<>>
    /\ \E c \in OrderLoads :
           /\ qlist = [m \in Models |-> [i \in 1..Len(c[m]) |-> PressureItem(m, i, c[m][i])]]
           /\ nsub = LoadUpTo(c, NumModels)
    /\ wq = PoolBindings
    /\ wopt = PoolBindings
    /\ backend = PoolBindings
    /\ qworkers = [m \in Models |-> SelectSeq(WorkerList, LAMBDA w : PoolBindings[w] = m)]
    /\ spc = "count"
    /\ sl = [SL0 EXCEPT !.idx = 1]
    /\ attach_count = NumWorkers
    /\ locks = Unlocked
    /\ tally = NoTally
    /\ qhist = [m \in Models |-> [put |-> Ids(qlist[m]), got |-> <<>>]]
    /\ wstop = [w \in Workers |-> FALSE]
    /\ wpc = [w \in Workers |-> "pull"]
    /\ witem = [w \in Workers |-> NoneItem]

SpecOrder == InitOrder /\ [][NextPool]_vars

\* the queues the pass has bound a worker to, in either loop
Served == {sl.dest[i] : i \in 1..Len(sl.dest)}

\* C40 as stated: when a pass has returned, every unmanned late queue of its
\* scan whose head latency is larger than that of an unmanned late queue the
\* pass gave a worker to has been given a worker as well.
C40_AsStated ==
    PassReturned =>
        \A m \in ScanLate \cap Served :
            \A n \in ScanLate :
                ScanLatency(n) > ScanLatency(m) => n \in Served

====
